---- MODULE Spec2Model ----
(***************************************************************************)
(* The ASGI tracing middleware (OpenTelemetryMiddleware) of                *)
(* opentelemetry.util.http.asgi, with the exclusion list of the starlette  *)
(* instrumentation, as a state machine.                                    *)
(*                                                                         *)
(* A request is one call of OpenTelemetryMiddleware.__call__, run by one   *)
(* asyncio task.  The code between two awaits runs without interleaving,   *)
(* so an action is the code from one suspension point to the next.  The    *)
(* suspension points are the await of the downstream application and the   *)
(* awaits of the underlying receive/send inside the wrappers.              *)
(*                                                                         *)
(* The module-level functions (CarrierGetter, collect_request_attributes,  *)
(* get_host_port_url_tuple, set_status_code, url_disabled) are also called *)
(* on their own, with arguments drawn from bounded sets (SpecFn), and so   *)
(* are get_default_span_details and the trace id generator of the AWS      *)
(* X-Ray extension.  The instrumentors of starlette and pymssql, which     *)
(* switch the tracing of a library on and off, are a state machine of      *)
(* their own (SpecInstr).                                                  *)
(*                                                                         *)
(* Strings are sequences of one-character strings, so that concatenation   *)
(* and regular-expression search are computed and not assumed.             *)
(***************************************************************************)
EXTENDS Integers, Sequences, FiniteSets, TLC

\* ------------------------------------------------------------------ bounds
\* number of requests the transport hands to the middleware
NumRequests == 2
\* wrapped receive/send calls the downstream application makes per request
MaxCalls == 2

Requests == 1..NumRequests

\* ------------------------------------------------------------ Python values
\* a Python value: None, a str/bytes (sequence of characters) or an int
NoneV == [t |-> "none", s |-> <<>>, n |-> 0]
Str(s) == [t |-> "str", s |-> s, n |-> 0]
IntV(n) == [t |-> "int", s |-> <<>>, n |-> n]
\* Python truthiness of a value
Truthy(v) == \/ v.t = "str" /\ v.s # <<>>
             \/ v.t = "int" /\ v.n # 0

\* the characters of some literals of the source
S_http == <<"h", "t", "t", "p">>
S_websocket == <<"w", "e", "b", "s", "o", "c", "k", "e", "t">>
S_lifespan == <<"l", "i", "f", "e", "s", "p", "a", "n">>
S_asgi == <<" ", "a", "s", "g", "i">>
S_receive == <<".", "r", "e", "c", "e", "i", "v", "e">>
S_send == <<".", "s", "e", "n", "d">>
S_GET == <<"G", "E", "T">>
S_traceparent == <<"t", "r", "a", "c", "e", "p", "a", "r", "e", "n", "t">>
S_host == <<"h", "o", "s", "t">>
S_user_agent == <<"u", "s", "e", "r", "-", "a", "g", "e", "n", "t">>
S_default_server == <<"0", ".", "0", ".", "0", ".", "0">>

\* str(n) for a non-negative int
RECURSIVE Digits(_)
Digits(n) ==
    LET d == <<"0", "1", "2", "3", "4", "5", "6", "7", "8", "9">>
    IN IF n < 10 THEN <<d[n + 1]>> ELSE Digits(n \div 10) \o <<d[(n % 10) + 1]>>

\* re.search of a pattern without metacharacters: p occurs somewhere in u
IsSubstring(p, u) ==
    \E i \in 0..(Len(u) - Len(p)) : \A j \in 1..Len(p) : u[i + j] = p[j]

\* s.split(sep)
RECURSIVE Split(_, _)
Split(s, sep) ==
    IF \A i \in 1..Len(s) : s[i] # sep THEN <<s>>
    ELSE LET i == CHOOSE i \in 1..Len(s) :
                      s[i] = sep /\ \A j \in 1..(i - 1) : s[j] # sep
         IN <<SubSeq(s, 1, i - 1)>> \o Split(SubSeq(s, i + 1, Len(s)), sep)

\* bytes.decode("utf8") fails on a byte string holding an invalid byte
BadByte == "\\xff"
Decodable(s) == \A i \in 1..Len(s) : s[i] # BadByte


\* ------------------------------------------------- the X-Ray id generator
HexDigits == <<"0", "1", "2", "3", "4", "5", "6", "7", "8", "9",
               "a", "b", "c", "d", "e", "f">>
\* hex(n)[2:] of an integer n >= 0
RECURSIVE Hex(_)
Hex(n) ==
    IF n < 16 THEN <<HexDigits[n + 1]>>
    ELSE Hex(n \div 16) \o <<HexDigits[(n % 16) + 1]>>
\* the bytes os.urandom gives to a trace id
RandomBytes == 12
\* AwsXRayIdGenerator.generate_trace_id(): the clock in hexadecimal, then
\* the hexadecimal digits of the random bytes; time is what TIME.time()
\* gives, truncated to an integer, bina the digits of os.urandom(12)
generate_trace_id(time, bina) ==
    LET hexa == Hex(time)
    IN hexa \o bina

\* ------------------------------------------------------------ the ASGI scope
\* A scope is a record of Python values; NoneV stands for a key that is not
\* in the scope.  headers is the carrier: a sequence of <<name, value>> pairs
\* of byte strings, the list of scope["headers"] when the scope has that key.
\* the scope's "app" and its routes, when the framework has put it there
NoApp == [given |-> FALSE, routes |-> <<>>]
MkScope(type, scheme, host, port, path, method, headers, query) ==
    [type |-> type, app |-> NoApp, scheme |-> scheme, server_host |-> host,
     server_port |-> port, root_path |-> NoneV, path |-> path,
     method |-> method, headers |-> [given |-> TRUE, list |-> headers],
     query_string |-> query,
     http_version |-> IF type = S_http THEN Str(<<"1", ".", "1">>) ELSE NoneV,
     client |-> [given |-> type = S_websocket, ip |-> <<"c">>, port |-> 9]]

\* traceparent header values: two well-formed ones and a malformed one
TP1 == <<"0", "0", "-", "a", "-", "1", "-", "0", "1">>
TP2 == <<"0", "0", "-", "b", "-", "2", "-", "0", "1">>
TPBad == <<"x">>

P_foobar == <<"/", "f">>
P_healthzz == <<"/", "h", "z">>
P_ws == <<"/", "w">>

\* scopes the transport layer delivers
ScopeGet == MkScope(S_http, Str(S_http), NoneV, 80, Str(P_foobar), Str(S_GET),
                    <<>>, NoneV)
ScopeGetParent == MkScope(S_http, Str(S_http), Str(<<"a">>), 8080,
                          Str(P_foobar), Str(S_GET),
                          <<<<S_traceparent, TP1>>, <<S_host, <<"a">>>>>>,
                          NoneV)
ScopeGetParent2 == MkScope(S_http, Str(S_http), NoneV, 80, Str(P_foobar),
                           Str(S_GET), <<<<S_traceparent, TP2>>>>, NoneV)
ScopeHealth == MkScope(S_http, Str(S_http), NoneV, 80, Str(P_healthzz),
                       Str(S_GET), <<<<S_traceparent, TPBad>>>>, NoneV)
ScopeBadQuery == MkScope(S_http, Str(S_http), NoneV, 80, Str(P_foobar),
                         Str(S_GET), <<>>, Str(<<"q", BadByte>>))
ScopeWs == MkScope(S_websocket, Str(<<"w", "s">>), NoneV, 80, Str(P_ws), NoneV,
                   <<>>, Str(<<"q">>))
ScopeLifespan == MkScope(S_lifespan, NoneV, NoneV, 80, NoneV, NoneV, <<>>,
                         NoneV)
\* a scope that has no "headers" key
WithoutHeaders(scope) == [scope EXCEPT !.headers.given = FALSE]
\* a scope in which the framework has put its application, with its routes
WithApp(scope, routes) ==
    [scope EXCEPT !.app = [given |-> TRUE, routes |-> routes]]
ScopeWsNoHeaders == WithoutHeaders(ScopeWs)


\* scope.get(key, default) for a str-valued key
GetOr(v, default) == IF v.t = "none" THEN default ELSE v.s

\* get_host_port_url_tuple(scope): <<server_host, port, http_url>>
get_host_port_url_tuple(scope) ==
    LET server == IF scope.server_host.t = "none"
                  THEN [host |-> S_default_server, port |-> 80]
                  ELSE [host |-> scope.server_host.s,
                        port |-> scope.server_port]
        port == server.port
        server_host == server.host \o
                       (IF port # 80 THEN <<":">> \o Digits(port) ELSE <<>>)
        full_path == GetOr(scope.root_path, <<>>) \o GetOr(scope.path, <<>>)
        http_url == GetOr(scope.scheme, S_http) \o <<":", "/", "/">> \o
                    server_host \o full_path
    IN <<server_host, port, http_url>>

\* ------------------------------------------------------- the exclusion list
\* re.match of a pattern without metacharacters: p occurs at the start of u
IsPrefix(p, u) == Len(p) <= Len(u) /\ \A j \in 1..Len(p) : u[j] = p[j]
\* the fault in which the patterns are matched at the start of the url
url_disabled_match(excluded, url) ==
    /\ excluded # <<>>
    /\ \E i \in 1..Len(excluded) : IsPrefix(excluded[i], url)
\* "|".join(excluded_urls)
RECURSIVE JoinBar(_)
JoinBar(ps) ==
    IF ps = <<>> THEN <<>>
    ELSE IF Len(ps) = 1 THEN ps[1]
    ELSE ps[1] \o <<"|">> \o JoinBar(Tail(ps))
\* "".join(excluded_urls)
RECURSIVE JoinEmpty(_)
JoinEmpty(ps) == IF ps = <<>> THEN <<>> ELSE ps[1] \o JoinEmpty(Tail(ps))
\* re.search(regex, url) for a regular expression of literals and "|": one
\* of its alternatives occurs somewhere in url
search(regex, url) ==
    LET alternatives == Split(regex, "|")
    IN \E i \in 1..Len(alternatives) : IsSubstring(alternatives[i], url)
\* the fault in which the patterns are joined without the "|"
url_disabled_joined(excluded, url) ==
    excluded # <<>> /\ search(JoinEmpty(excluded), url)
\* _ExcludeList: the patterns are joined with "|" into one regular expression
\* when there are any, and url_disabled(url) searches it anywhere in the url;
\* the list is a sequence of patterns
url_disabled(excluded, url) ==
    excluded # <<>> /\ search(JoinBar(excluded), url)

\* str.strip(): s without the whitespace at its ends
RECURSIVE Strip(_)
Strip(s) ==
    IF s = <<>> THEN s
    ELSE IF Head(s) = " " THEN Strip(Tail(s))
    ELSE IF s[Len(s)] = " " THEN Strip(SubSeq(s, 1, Len(s) - 1))
    ELSE s
\* _get_excluded_urls(), lines 39-47, with env the value of
\* OTEL_PYTHON_STARLETTE_EXCLUDED_URLS (None when it is unset): the patterns
\* of the _ExcludeList it returns
get_excluded_urls(env) ==
    IF env.t = "none" \/ env.s = <<>> THEN <<>>
    ELSE LET entries == Split(env.s, ",")
         IN [i \in 1..Len(entries) |-> Strip(entries[i])]

\* the middleware's excluded_urls argument: None, or an _ExcludeList
NoExcludeList == [given |-> FALSE, patterns |-> <<>>]
ExcludeList(patterns) == [given |-> TRUE, patterns |-> patterns]

\* ------------------------------------------------------------ CarrierGetter
RECURSIVE SelectValues(_, _)
SelectValues(headers, key) ==
    IF headers = <<>> THEN <<>>
    ELSE (IF headers[1][1] = key THEN <<headers[1][2]>> ELSE <<>>)
         \o SelectValues(Tail(headers), key)

\* CarrierGetter.get(carrier, key): [raised, found, values]; the list of the
\* values, or None ([found |-> FALSE]); iterating carrier.get("headers")
\* raises TypeError when the carrier has no "headers"
CarrierGetter_get(carrier, key) ==
    IF ~carrier.headers.given
    THEN [raised |-> "TypeError", found |-> FALSE, values |-> <<>>]
    ELSE LET decoded == SelectValues(carrier.headers.list, key)
         IN IF decoded = <<>>
            THEN [raised |-> "", found |-> FALSE, values |-> <<>>]
            ELSE [raised |-> "", found |-> TRUE, values |-> decoded]

\* list(carrier.keys()) of a scope: the keys the scope has, in their order
ScopeKeys(carrier) ==
    LET has(cond, k) == IF cond THEN <<k>> ELSE <<>>
    IN <<<<"type">>>>
       \o has(carrier.scheme # NoneV, <<"scheme">>)
       \o has(carrier.server_host # NoneV, <<"server">>)
       \o has(carrier.root_path # NoneV, <<"root_path">>)
       \o has(carrier.path # NoneV, <<"path">>)
       \o has(carrier.method # NoneV, <<"method">>)
       \o has(carrier.headers.given, <<"headers">>)
       \o has(carrier.query_string # NoneV, <<"query_string">>)
       \o has(carrier.http_version # NoneV, <<"http_version">>)
       \o has(carrier.client.given, <<"client">>)
       \o has(carrier.app.given, <<"app">>)
\* CarrierGetter.keys(carrier): CarrierGetter defines get only, keys is the
\* one of DictGetter, the keys of the carrier dict
CarrierGetter_keys(carrier) == ScopeKeys(carrier)

\* ------------------------------------------------------ Python dictionaries
\* a dict is a sequence of <<key, value>> pairs in insertion order
RECURSIVE DictHas(_, _)
DictHas(d, k) == d # <<>> /\ (d[1][1] = k \/ DictHas(Tail(d), k))
\* d[k] = v
DictSet(d, k, v) ==
    IF DictHas(d, k)
    THEN [i \in 1..Len(d) |-> IF d[i][1] = k THEN <<k, v>> ELSE d[i]]
    ELSE Append(d, <<k, v>>)
RECURSIVE DictUpdate(_, _)
DictUpdate(d, e) ==
    IF e = <<>> THEN d ELSE DictUpdate(DictSet(d, e[1][1], e[1][2]), Tail(e))
RECURSIVE DictGet(_, _)
DictGet(d, k) ==
    IF d = <<>> THEN NoneV
    ELSE IF d[1][1] = k THEN d[1][2] ELSE DictGet(Tail(d), k)
\* the fault in which the None values are left in the result
DropNoneKept(d) == d
\* {k: v for k, v in d.items() if v is not None}
RECURSIVE DropNone(_)
DropNone(d) ==
    IF d = <<>> THEN <<>>
    ELSE (IF d[1][2] = NoneV THEN <<>> ELSE <<d[1]>>) \o DropNone(Tail(d))

\* ",".join(values)
RECURSIVE JoinComma(_)
JoinComma(vs) ==
    IF Len(vs) = 1 THEN vs[1] ELSE vs[1] \o <<",">> \o JoinComma(Tail(vs))

\* the fault in which the query string is appended as it is
UnquoteNothing(s) == s
\* urllib.parse.unquote on the escapes of the model's alphabet
RECURSIVE Unquote(_)
Unquote(s) ==
    IF s = <<>> THEN <<>>
    ELSE IF Len(s) >= 3 /\ s[1] = "%" /\ s[2] = "2" /\ s[3] = "0"
         THEN <<" ">> \o Unquote(SubSeq(s, 4, Len(s)))
         ELSE <<s[1]>> \o Unquote(Tail(s))

\* collect_request_attributes(scope): [raised, attrs]; raised is the
\* exception of query_string.decode or of carrier_getter.get, "" when there
\* is none
collect_request_attributes(scope) ==
    LET hpu == get_host_port_url_tuple(scope)
        query_string == scope.query_string
        withq == Truthy(query_string) /\ hpu[3] # <<>>
        http_url == IF withq THEN hpu[3] \o <<"?">> \o Unquote(query_string.s)
                    ELSE hpu[3]
        base == <<<<"http.scheme", scope.scheme>>,
                  <<"http.host", Str(hpu[1])>>,
                  <<"net.host.port", IntV(hpu[2])>>,
                  <<"http.flavor", scope.http_version>>,
                  <<"http.target", scope.path>>,
                  <<"http.url", Str(http_url)>>>>
        r1 == IF Truthy(scope.method)
              THEN DictSet(base, "http.method", scope.method) ELSE base
        hosts == CarrierGetter_get(scope, S_host)
        r2 == IF hosts.found
              THEN DictSet(r1, "http.server_name", Str(JoinComma(hosts.values)))
              ELSE r1
        agents == CarrierGetter_get(scope, S_user_agent)
        r3 == IF agents.found
              THEN DictSet(r2, "http.user_agent", Str(agents.values[1]))
              ELSE r2
        r4 == IF scope.client.given
              THEN DictSet(DictSet(r3, "net.peer.ip", Str(scope.client.ip)),
                           "net.peer.port", IntV(scope.client.port))
              ELSE r3
    IN IF withq /\ ~Decodable(query_string.s)
       THEN [raised |-> "UnicodeDecodeError", attrs |-> <<>>]
       ELSE IF hosts.raised # ""
       THEN [raised |-> hosts.raised, attrs |-> <<>>]
       ELSE [raised |-> "", attrs |-> DropNone(r4)]

\* the fault in which the path is taken before the method
get_default_span_details_path_first(scope) ==
    [raised |-> "",
     name |-> IF Truthy(scope.path) THEN scope.path ELSE scope.method,
     attrs |-> <<>>]
\* get_default_span_details(scope): method or path, and no attributes
get_default_span_details(scope) ==
    [raised |-> "",
     name |-> IF Truthy(scope.method) THEN scope.method ELSE scope.path,
     attrs |-> <<>>]

\* a route of the application: its path template, a sequence of characters
\* and of parameters such as "{username}", and the methods it serves
Route(path, methods) == [path |-> path, methods |-> methods]
IsParam(chunk) == chunk \in {"{username}"}
\* the regular expression of a path template matches the whole path: a
\* parameter stands for one or more characters other than "/"
RECURSIVE MatchesPath(_, _)
MatchesPath(template, path) ==
    IF template = <<>> THEN path = <<>>
    ELSE IF IsParam(template[1])
    THEN \E k \in 1..Len(path) :
             /\ \A j \in 1..k : path[j] # "/"
             /\ MatchesPath(Tail(template), SubSeq(path, k + 1, Len(path)))
    ELSE /\ path # <<>>
         /\ path[1] = template[1]
         /\ MatchesPath(Tail(template), Tail(path))
\* starlette_route.matches(scope): Match.FULL, Match.PARTIAL (the path is
\* the route's, the method is not) or Match.NONE
Matches(route, scope) ==
    IF scope.type = S_http /\ scope.path.t = "str"
       /\ MatchesPath(route.path, scope.path.s)
    THEN IF route.methods # {} /\ scope.method \notin route.methods
         THEN "PARTIAL" ELSE "FULL"
    ELSE "NONE"
\* the loop of _get_route_details over app.routes: the path of the first
\* route that matches fully, else of the last one that matches partially
RECURSIVE FindRoute(_, _, _)
FindRoute(routes, scope, route) ==
    IF routes = <<>> THEN route
    ELSE LET match == Matches(routes[1], scope)
         IN IF match = "FULL" THEN Str(routes[1].path)
            ELSE FindRoute(Tail(routes), scope,
                           IF match = "PARTIAL" THEN Str(routes[1].path)
                           ELSE route)
\* the fault in which the concrete path is reported
get_route_details_concrete(scope) ==
    [raised |-> IF scope.app.given THEN "" ELSE "KeyError",
     name |-> scope.path,
     attrs |-> <<<<"http.route", scope.path>>>>]
\* _get_route_details(scope): the route template, or the method when no
\* route matches; http.route when a route matches
get_route_details(scope) ==
    LET route == FindRoute(scope.app.routes, scope, NoneV)
        span_name == IF Truthy(route) THEN route
                     ELSE Str(GetOr(scope.method, <<>>))
        attributes == IF Truthy(route) THEN <<<<"http.route", route>>>>
                      ELSE <<>>
    IN IF ~scope.app.given
       THEN [raised |-> "KeyError", name |-> NoneV, attrs |-> <<>>]
       ELSE [raised |-> "", name |-> span_name, attrs |-> attributes]

\* what a user-supplied span_details_callback may do: return a name with
\* attributes, return no name, or raise
R_route == <<"/", "r">>
UserCallbackResults ==
    {[raised |-> "", name |-> Str(R_route),
      attrs |-> <<<<"http.route", Str(R_route)>>>>],
     [raised |-> "", name |-> NoneV, attrs |-> <<>>],
     [raised |-> "KeyError", name |-> NoneV, attrs |-> <<>>]}

\* self.span_details_callback(scope)
CallbackResults(callback, scope) ==
    IF callback = "default" THEN {get_default_span_details(scope)}
    ELSE IF callback = "route" THEN {get_route_details(scope)}
    ELSE UserCallbackResults

\* ------------------------------------------------------- context and spans
\* a reference to a span: none, the remote parent named by a carrier, or the
\* idx-th span of request req
NoSpan == [k |-> "none", req |-> 0, idx |-> 0, rid |-> <<>>]
RemoteSpan(rid) == [k |-> "remote", req |-> 0, idx |-> 0, rid |-> rid]
LocalSpan(r, i) == [k |-> "local", req |-> r, idx |-> i, rid |-> <<>>]

\* a Context: the current span and the "suppress_instrumentation" flag
Ctx(span, suppress) == [span |-> span, suppress |-> suppress]
\* a token of context.attach: the task it was made in, the context it restores
NoToken == [owner |-> 0, old |-> Ctx(NoSpan, FALSE)]

\* the traceparent header: version-traceid-spanid-flags
WellFormedTraceparent(v) ==
    LET parts == Split(v, "-")
    IN Len(parts) = 4 /\ \A i \in 1..4 : parts[i] # <<>>
RemoteOf(v) ==
    LET parts == Split(v, "-") IN RemoteSpan(parts[2] \o <<"-">> \o parts[3])

\* the exception of propagators.extract(carrier_getter, scope), "" when there
\* is none: the propagator reads its header with carrier_getter.get
ExtractRaised(scope) == CarrierGetter_get(scope, S_traceparent).raised
\* propagators.extract(carrier_getter, scope), in the current context: the
\* remote parent of a well-formed traceparent header, no parent otherwise
extract(scope, current) ==
    LET header == CarrierGetter_get(scope, S_traceparent)
    IN IF header.found /\ WellFormedTraceparent(header.values[1])
       THEN Ctx(RemoteOf(header.values[1]), current.suppress)
       ELSE Ctx(NoSpan, current.suppress)

\* context.attach(ctx) in the task of request r: the token
context_attach(r, current) == [owner |-> r, old |-> current]
\* context.detach(token) in the task of request r: the context afterwards; a
\* token of another task is refused (logged), the context stays
context_detach(r, current, tok) == IF tok.owner = r THEN tok.old ELSE current

StatusUnset == [code |-> "UNSET", desc |-> <<>>]
StatusError(desc) == [code |-> "ERROR", desc |-> desc]

\* tracer.start_span(name, kind) under context ctx; recording is the
\* sampler's decision, one for all the spans of a trace; writes counts the
\* set_attribute and set_status calls made on the span
StartSpan(ctx, name, kind, recording) ==
    [name |-> name, kind |-> kind, parent |-> ctx.span, recording |-> recording,
     status |-> StatusUnset, attrs |-> <<>>, ended |-> FALSE,
     exception |-> "", token |-> NoToken, writes |-> 0]
is_recording(span) == span.recording /\ ~span.ended
\* a span that is not recording takes the call and keeps nothing
set_attribute(span, k, v) ==
    IF is_recording(span)
    THEN [span EXCEPT !.attrs = DictSet(@, k, v), !.writes = @ + 1]
    ELSE [span EXCEPT !.writes = @ + 1]
set_status(span, st) ==
    IF is_recording(span)
    THEN [span EXCEPT !.status = st, !.writes = @ + 1]
    ELSE [span EXCEPT !.writes = @ + 1]
RECURSIVE SetAttributes(_, _)
SetAttributes(span, d) ==
    IF d = <<>> THEN span
    ELSE SetAttributes(set_attribute(span, d[1][1], d[1][2]), Tail(d))

\* asyncio.CancelledError is no Exception: a cancellation is not recorded
Cancelled == "CancelledError"
\* leaving the with block of start_as_current_span with exception exc ("" for
\* a normal exit): an Exception is recorded and marks a recording span as
\* error, and the span is ended in every case
ExitSpan(span, exc) ==
    LET marked == IF exc \notin {"", Cancelled} /\ is_recording(span)
                  THEN [span EXCEPT
                          !.exception = exc,
                          !.status = IF @.code = "UNSET"
                                     THEN StatusError(<<exc>>) ELSE @]
                  ELSE span
    IN [marked EXCEPT !.ended = TRUE]

\* ------------------------------------------------------------ status mapper
IsDigit(c) == c \in {"0", "1", "2", "3", "4", "5", "6", "7", "8", "9"}
DigitValue(c) == CHOOSE n \in 0..9 : Digits(n) = <<c>>
RECURSIVE ParseInt(_)
ParseInt(s) ==
    IF Len(s) = 1 THEN DigitValue(s[1])
    ELSE 10 * ParseInt(SubSeq(s, 1, Len(s) - 1)) + DigitValue(s[Len(s)])

\* http_status_to_status_code(status)
http_status_to_status_code(status) ==
    IF status < 100 THEN "ERROR"
    ELSE IF status <= 399 THEN "UNSET"
    ELSE "ERROR"

\* repr(v) of a str
Repr(v) == <<"'">> \o v.s \o <<"'">>
NonIntegerPrefix == <<"Non-integer HTTP status: ">>

\* the fault in which the attribute is set to the status as it was given
set_status_code_uncoerced(span, status_code) ==
    IF ~is_recording(span) THEN [span |-> span, raised |-> ""]
    ELSE IF status_code.t = "none"
    THEN [span |-> span, raised |-> "TypeError"]
    ELSE IF status_code.t = "str" /\
            (status_code.s = <<>> \/
             \E i \in 1..Len(status_code.s) : ~IsDigit(status_code.s[i]))
    THEN [span |-> set_status(span, StatusError(NonIntegerPrefix \o
                                                Repr(status_code))),
          raised |-> ""]
    ELSE LET code == IF status_code.t = "int" THEN status_code.n
                     ELSE ParseInt(status_code.s)
         IN [span |-> set_status(
                        set_attribute(span, "http.status_code", status_code),
                        [code |-> http_status_to_status_code(code),
                         desc |-> <<>>]),
             raised |-> ""]
\* set_status_code(span, status_code): [span, raised]; int(status_code)
\* raises ValueError for a str that is no number and TypeError for None, and
\* only ValueError is caught
set_status_code(span, status_code) ==
    IF ~is_recording(span) THEN [span |-> span, raised |-> ""]
    ELSE IF status_code.t = "none"
    THEN [span |-> span, raised |-> "TypeError"]
    ELSE IF status_code.t = "str" /\
            (status_code.s = <<>> \/
             \E i \in 1..Len(status_code.s) : ~IsDigit(status_code.s[i]))
    THEN [span |-> set_status(span, StatusError(NonIntegerPrefix \o
                                                Repr(status_code))),
          raised |-> ""]
    ELSE LET code == IF status_code.t = "int" THEN status_code.n
                     ELSE ParseInt(status_code.s)
         IN [span |-> set_status(
                        set_attribute(span, "http.status_code", IntV(code)),
                        [code |-> http_status_to_status_code(code),
                         desc |-> <<>>]),
             raised |-> ""]

\* ----------------------------------------------------------------- messages
Msg(type, status) == [type |-> type, status |-> status]
NoMsg == Msg(NoneV, NoneV)
M_http_request == Str(<<"http.request">>)
M_http_response_start == Str(<<"http.response.start">>)
M_http_response_body == Str(<<"http.response.body">>)
M_websocket_receive == Str(<<"websocket.receive">>)
M_websocket_connect == Str(<<"websocket.connect">>)
M_websocket_send == Str(<<"websocket.send">>)

\* the messages the transport delivers, and the ones the application sends
RecvMessages(type) ==
    IF type = S_websocket
    THEN {Msg(M_websocket_receive, NoneV), Msg(M_websocket_connect, NoneV)}
    ELSE {Msg(M_http_request, NoneV)}
SendMessages(type) ==
    IF type = S_websocket THEN {Msg(M_websocket_send, NoneV)}
    ELSE {Msg(M_http_response_start, IntV(200)),
          Msg(M_http_response_start, NoneV),
          Msg(M_http_response_body, NoneV)}

\* the exceptions the application raises, and the transport
Exceptions == {"E1", "E2"}
TransportErrors == {"E1"}

\* ------------------------------------------------------------------- state
VARIABLES
    excluded_urls,          \* self.excluded_urls
    span_details_callback,  \* self.span_details_callback: "default", "route"
                            \* (_get_route_details) or "user"
    scope,                  \* the scope of each request
    pc,                     \* "off", "idle", "app" (awaiting self.app), "done"
    given,                  \* the receive and send the application was
                            \* called with: "none", "original" or "wrapped"
    app_scope,              \* the scopes self.app was called with, in order
    cur,                    \* the current Context of each request's task
    token,                  \* the local token of __call__
    span_name,              \* the local span_name of __call__
    spans,                  \* the spans started for each request, in order
    calls,                  \* the receive/send calls of the application
    log,                    \* what happened in each request, in order
    appOutcome,             \* how the call of self.app ended
    result,                 \* how the call of the middleware ended
    tasks,                  \* the application runs its calls in own tasks
    budget,                 \* the calls the application makes at most
    sampled,                \* the sampler's decision for the request's trace
    fn,                     \* the function that is called on its own
    fn_args,                \* the arguments of that call
    fn_done,                \* the call has returned or raised
    fn_ret,                 \* what it returned or raised
    applications_Starlette, \* the class starlette.applications.Starlette names
    original_starlette,     \* StarletteInstrumentor._original_starlette
    is_instrumented,        \* the instrumentors that are switched on
    apps,                   \* the Starlette applications constructed
    pymssql_connect,        \* pymssql.connect: "connect" or "wrapped"
    connections,            \* the pymssql connections obtained
    executed,               \* the last statement executed, and its spans
    returned                \* the last call of instrument_connection

\* the state of the requests, and the state of a call of one function
reqvars == <<excluded_urls, span_details_callback, scope, pc, given, app_scope,
             cur,
             token, span_name, spans, calls, log, appOutcome, result, tasks,
             budget, sampled>>
fnvars == <<fn, fn_args, fn_done, fn_ret>>
\* the state of the instrumented libraries
libvars == <<applications_Starlette, original_starlette, is_instrumented,
             apps, pymssql_connect, connections, executed, returned>>
vars == <<reqvars, fnvars, libvars>>

Outcome(kind, exc) == [kind |-> kind, exc |-> exc]
NoOutcome == Outcome("none", "")
Event(ev, n, tok) == [ev |-> ev, n |-> n, tok |-> tok]
Ev(ev, n) == Event(ev, n, NoToken)

\* A scenario is what one run starts from: the middleware's configuration
\* (exclusion list, callback), the request's scope, whether the ambient
\* context carries the suppression flag, whether the application runs its
\* receive/send calls in tasks of its own, and how many calls it makes at most.
Scenario(excl, cb, sc, suppress, intasks, ncalls) ==
    [excl |-> excl, cb |-> cb, scope |-> sc, suppress |-> suppress,
     tasks |-> intasks, budget |-> ncalls]
ExcludeHz == ExcludeList(<<<<"/", "e">>, <<"h", "z">>>>)
\* an application with two routes, and requests to it: one that a route
\* serves, one whose method the route does not serve, one that has no route
S_POST == <<"P", "O", "S", "T">>
P_user == <<"/", "u", "/", "1", "2">>
T_user == <<"/", "u", "/", "{username}">>
AppRoutes == <<Route(<<"/", "h">>, {Str(S_GET)}), Route(T_user, {Str(S_GET)})>>
ScopeUser == WithApp(MkScope(S_http, Str(S_http), NoneV, 80, Str(P_user),
                             Str(S_GET), <<>>, NoneV), AppRoutes)
ScopeUserPost == WithApp(MkScope(S_http, Str(S_http), NoneV, 80, Str(P_user),
                                 Str(S_POST), <<>>, NoneV), AppRoutes)
ScopeNoRoute == WithApp(ScopeGet, AppRoutes)
Scenarios ==
    {Scenario(NoExcludeList, "default", ScopeGet, FALSE, TRUE, MaxCalls),
     Scenario(NoExcludeList, "default", ScopeGet, TRUE, FALSE, MaxCalls),
     Scenario(ExcludeHz, "default", ScopeGetParent, FALSE, FALSE, MaxCalls),
     Scenario(ExcludeHz, "default", ScopeHealth, FALSE, FALSE, MaxCalls),
     Scenario(ExcludeList(<<>>), "default", ScopeHealth, FALSE, FALSE,
              MaxCalls),
     Scenario(NoExcludeList, "default", ScopeBadQuery, FALSE, FALSE, MaxCalls),
     Scenario(NoExcludeList, "user", ScopeWs, FALSE, FALSE, MaxCalls),
     Scenario(NoExcludeList, "default", ScopeWsNoHeaders, FALSE, FALSE,
              MaxCalls),
     Scenario(ExcludeHz, "user", ScopeGet, TRUE, FALSE, MaxCalls),
     Scenario(ExcludeHz, "default", ScopeLifespan, FALSE, FALSE, MaxCalls),
     Scenario(ExcludeHz, "route", ScopeUser, FALSE, FALSE, MaxCalls),
     Scenario(ExcludeHz, "route", ScopeUserPost, FALSE, FALSE, MaxCalls),
     Scenario(ExcludeHz, "route", ScopeNoRoute, FALSE, FALSE, MaxCalls)}

\* the scopes of the requests that are handled concurrently
ConcScopes == <<ScopeGetParent, ScopeGetParent2, ScopeGet>>
ConcScope(r) == ConcScopes[((r - 1) % Len(ConcScopes)) + 1]

GivenNone == [receive |-> "none", send |-> "none"]
\* lines 177, 181: self.app(scope, receive, send)
GivenOriginal == [receive |-> "original", send |-> "original"]
\* the fault in which receive is passed on unwrapped:
\* self.app(scope, receive, wrapped_send)
GivenReceiveUnwrapped == [receive |-> "original", send |-> "wrapped"]
\* line 222: self.app(scope, wrapped_receive, wrapped_send)
GivenWrapped == [receive |-> "wrapped", send |-> "wrapped"]

\* with concurrent requests each application makes one call at most
ConcBudget == [r \in Requests |-> 1]

InitLocals ==
    /\ given = [r \in Requests |-> GivenNone]
    /\ app_scope = [r \in Requests |-> <<>>]
    /\ token = [r \in Requests |-> NoToken]
    /\ span_name = [r \in Requests |-> <<>>]
    /\ spans = [r \in Requests |-> <<>>]
    /\ calls = [r \in Requests |-> <<>>]
    /\ log = [r \in Requests |-> <<>>]
    /\ appOutcome = [r \in Requests |-> NoOutcome]
    /\ result = [r \in Requests |-> NoOutcome]

\* the arguments of a call: a carrier (a scope) and a header name, an
\* exclusion list and a url, a span and a status code
Args(carrier, key, excluded, url, span, status_code) ==
    [carrier |-> carrier, key |-> key, excluded |-> excluded, url |-> url,
     span |-> span, status_code |-> status_code, clock |-> 0,
     random |-> <<>>, message |-> NoMsg, env |-> NoneV]
NoArgs == Args(ScopeGet, <<>>, <<>>, <<>>,
               StartSpan(Ctx(NoSpan, FALSE), <<>>, "INTERNAL", FALSE), NoneV)
\* no function is called on its own
InitNoCall ==
    /\ fn = ""
    /\ fn_args = NoArgs
    /\ fn_done = FALSE
    /\ fn_ret = <<>>

\* the libraries as they are imported: nothing is instrumented
NoStatement == [conn |-> 0, spans |-> 0]
NoReturn == [conn |-> 0, raised |-> "", result |-> 0]
InitLib ==
    /\ applications_Starlette = "Starlette"
    /\ original_starlette = "None"
    /\ is_instrumented = [starlette |-> FALSE, pymssql |-> FALSE]
    /\ apps = <<>>
    /\ pymssql_connect = "connect"
    /\ connections = <<>>
    /\ executed = NoStatement
    /\ returned = NoReturn

\* a middleware just constructed, and one request about to arrive
Init ==
    /\ InitLib
    /\ InitNoCall
    /\ \E sc \in Scenarios :
         /\ excluded_urls = sc.excl
         /\ span_details_callback = sc.cb
         /\ scope = [r \in Requests |-> sc.scope]
         /\ cur = [r \in Requests |-> Ctx(NoSpan, sc.suppress /\ r = 1)]
         /\ tasks = [r \in Requests |-> sc.tasks]
         /\ budget = [r \in Requests |-> sc.budget]
    /\ \E b \in BOOLEAN : sampled = [r \in Requests |-> b]
    /\ pc = [r \in Requests |-> IF r = 1 THEN "idle" ELSE "off"]
    /\ InitLocals

\* a middleware just constructed, and all the requests about to arrive
InitConc ==
    /\ InitLib
    /\ InitNoCall
    /\ excluded_urls = ExcludeList(<<<<"h", "z">>>>)
    /\ span_details_callback = "default"
    /\ scope = [r \in Requests |-> ConcScope(r)]
    /\ cur = [r \in Requests |-> Ctx(NoSpan, FALSE)]
    /\ tasks = [r \in Requests |-> FALSE]
    /\ budget = ConcBudget
    /\ sampled = [r \in Requests |-> TRUE]
    /\ pc = [r \in Requests |-> "idle"]
    /\ InitLocals

\* ---------------------------------------------------- __call__, up to self.app
\* the fault in which the current context is one global shared by all tasks
SetCurrentShared(r, ctx) == [q \in Requests |-> ctx]
\* the current context is a context variable: setting it in the task of
\* request r leaves the context of every other task alone
SetCurrent(r, ctx) == [cur EXCEPT ![r] = ctx]

\* the fault in which the scope type is not looked at
IsTracedTypeAny(type) == TRUE
\* line 176
IsTracedType(type) == type \in {S_http, S_websocket}
\* the fault in which the query string is part of the url that is tested
IsExcludedWithQuery(excl, sc) ==
    /\ excl.given
    /\ url_disabled(excl.patterns,
                    get_host_port_url_tuple(sc)[3] \o <<"?">> \o
                    GetOr(sc.query_string, <<>>))
\* lines 179-180
IsExcluded(excl, sc) ==
    excl.given /\ url_disabled(excl.patterns, get_host_port_url_tuple(sc)[3])

\* the fault in which the application gets a scope without the headers
PassedScopeNoHeaders(sc) == WithoutHeaders(sc)
\* lines 177, 181, 222: self.app(scope, ...) is given the scope of the call
PassedScope(sc) == sc

\* the fault in which reading the headers takes them out of the scope
ScopeReadPopsHeaders(sc) == WithoutHeaders(sc)
\* the scope after __call__ and its helpers have read it: they use
\* scope[...] and scope.get(...) and assign nothing
ScopeRead(sc) == sc

\* lines 176-177: a scope that is neither http nor websocket
PassThroughType(r) ==
    /\ pc[r] = "idle"
    /\ ~IsTracedType(scope[r].type)
    /\ pc' = [pc EXCEPT ![r] = "app"]
    /\ given' = [given EXCEPT ![r] = GivenOriginal]
    /\ log' = [log EXCEPT ![r] = @ \o <<Ev("app_call", 0)>>]
    /\ app_scope' = [app_scope EXCEPT ![r] = Append(@, PassedScope(scope[r]))]
    /\ scope' = [scope EXCEPT ![r] = ScopeRead(@)]
    /\ UNCHANGED <<fnvars, libvars, excluded_urls, span_details_callback, tasks,
                   budget, sampled,
                   cur, token, span_name, spans, calls, appOutcome, result>>

\* lines 179-181: an excluded url
PassThroughExcluded(r) ==
    /\ pc[r] = "idle"
    /\ IsTracedType(scope[r].type)
    /\ IsExcluded(excluded_urls, scope[r])
    /\ pc' = [pc EXCEPT ![r] = "app"]
    /\ given' = [given EXCEPT ![r] = GivenOriginal]
    /\ log' = [log EXCEPT ![r] = @ \o <<Ev("app_call", 0)>>]
    /\ app_scope' = [app_scope EXCEPT ![r] = Append(@, PassedScope(scope[r]))]
    /\ scope' = [scope EXCEPT ![r] = ScopeRead(@)]
    /\ UNCHANGED <<fnvars, libvars, excluded_urls, span_details_callback, tasks,
                   budget, sampled,
                   cur, token, span_name, spans, calls, appOutcome, result>>

Active(r) ==
    /\ pc[r] = "idle"
    /\ IsTracedType(scope[r].type)
    /\ ~IsExcluded(excluded_urls, scope[r])

\* line 183: propagators.extract raises, before the attach
ActivateExtractRaises(r) ==
    /\ Active(r)
    /\ ExtractRaised(scope[r]) # ""
    /\ log' = [log EXCEPT ![r] = @ \o <<Ev("surface", 0)>>]
    /\ result' = [result EXCEPT
                    ![r] = Outcome("raise", ExtractRaised(scope[r]))]
    /\ pc' = [pc EXCEPT ![r] = "done"]
    /\ scope' = [scope EXCEPT ![r] = ScopeRead(@)]
    /\ UNCHANGED <<fnvars, libvars, app_scope, excluded_urls, span_details_callback, tasks,
                   budget, sampled,
                   given, cur, token, span_name, spans, calls, appOutcome>>

\* line 183: propagators.extract returns a context
Extracts(r) == Active(r) /\ ExtractRaised(scope[r]) = ""

\* lines 183-184: the callback raises after the attach, outside the try
ActivateCallbackRaises(r) ==
    /\ Extracts(r)
    /\ \E cb \in CallbackResults(span_details_callback, scope[r]) :
         LET ctx == extract(scope[r], cur[r])
             tok == context_attach(r, cur[r])
         IN /\ cb.raised # ""
            /\ token' = [token EXCEPT ![r] = tok]
            /\ cur' = SetCurrent(r, ctx)
            /\ log' = [log EXCEPT ![r] = @ \o <<Event("attach", 0, tok),
                                                Ev("surface", 0)>>]
            /\ result' = [result EXCEPT ![r] = Outcome("raise", cb.raised)]
    /\ pc' = [pc EXCEPT ![r] = "done"]
    /\ scope' = [scope EXCEPT ![r] = ScopeRead(@)]
    /\ UNCHANGED <<fnvars, libvars, app_scope, excluded_urls, span_details_callback, tasks,
                   budget, sampled,
                   given, span_name, spans, calls, appOutcome>>

\* lines 183-188, 223-224: span_name + " asgi" raises for a name that is None
ActivateNameRaises(r) ==
    /\ Extracts(r)
    /\ \E cb \in CallbackResults(span_details_callback, scope[r]) :
         LET ctx == extract(scope[r], cur[r])
             tok == context_attach(r, cur[r])
         IN /\ cb.raised = ""
            /\ cb.name.t = "none"
            /\ token' = [token EXCEPT ![r] = tok]
            /\ cur' = SetCurrent(r, context_detach(r, ctx, tok))
            /\ log' = [log EXCEPT ![r] = @ \o <<Event("attach", 0, tok),
                                                Event("detach", 0, tok),
                                                Ev("surface", 0)>>]
            /\ result' = [result EXCEPT ![r] = Outcome("raise", "TypeError")]
    /\ pc' = [pc EXCEPT ![r] = "done"]
    /\ scope' = [scope EXCEPT ![r] = ScopeRead(@)]
    /\ UNCHANGED <<fnvars, libvars, app_scope, excluded_urls, span_details_callback, tasks,
                   budget, sampled,
                   given, span_name, spans, calls, appOutcome>>

\* the fault in which the root span is started before the attach
OpeningSpanFirst(tok) == <<Ev("span_start", 1), Event("attach", 0, tok)>>
\* lines 183-189: the extracted context is attached, then the root span is
\* started
Opening(tok) == <<Event("attach", 0, tok), Ev("span_start", 1)>>

\* the fault in which the root span gets the bare name
RootSpanUnsuffixed(r, ctx, name, recording) ==
    [StartSpan(ctx, name, "SERVER", recording)
        EXCEPT !.token = context_attach(r, ctx)]
\* lines 187-189: the root span, current in the context ctx
RootSpan(r, ctx, name, recording) ==
    [StartSpan(ctx, name \o S_asgi, "SERVER", recording)
        EXCEPT !.token = context_attach(r, ctx)]

\* lines 183-194, 223-224: collect_request_attributes raises in the with block
ActivateAttrsRaise(r) ==
    /\ Extracts(r)
    /\ \E cb \in CallbackResults(span_details_callback, scope[r]) :
         LET ctx == extract(scope[r], cur[r])
             tok == context_attach(r, cur[r])
             root == RootSpan(r, ctx, cb.name.s, sampled[r])
             attributes == collect_request_attributes(scope[r])
             restored == context_detach(r, Ctx(LocalSpan(r, 1), ctx.suppress),
                                        root.token)
         IN /\ cb.raised = ""
            /\ cb.name.t # "none"
            /\ is_recording(root)
            /\ attributes.raised # ""
            /\ token' = [token EXCEPT ![r] = tok]
            /\ span_name' = [span_name EXCEPT ![r] = cb.name.s]
            /\ spans' = [spans EXCEPT
                           ![r] = <<ExitSpan(root, attributes.raised)>>]
            /\ cur' = SetCurrent(r, context_detach(r, restored, tok))
            /\ log' = [log EXCEPT ![r] = @ \o Opening(tok) \o
                                               <<Ev("span_end", 1),
                                                 Event("detach", 0, tok),
                                                 Ev("surface", 0)>>]
            /\ result' = [result EXCEPT
                            ![r] = Outcome("raise", attributes.raised)]
    /\ pc' = [pc EXCEPT ![r] = "done"]
    /\ scope' = [scope EXCEPT ![r] = ScopeRead(@)]
    /\ UNCHANGED <<fnvars, libvars, app_scope, excluded_urls, span_details_callback, tasks,
                   budget, sampled,
                   given, calls, appOutcome>>

\* lines 183-222: the root span is open and self.app is called with the
\* wrapped receive and send
Activate(r) ==
    /\ Extracts(r)
    /\ \E cb \in CallbackResults(span_details_callback, scope[r]) :
         LET ctx == extract(scope[r], cur[r])
             tok == context_attach(r, cur[r])
             root == RootSpan(r, ctx, cb.name.s, sampled[r])
             attributes == collect_request_attributes(scope[r])
         IN /\ cb.raised = ""
            /\ cb.name.t # "none"
            /\ is_recording(root) => attributes.raised = ""
            /\ token' = [token EXCEPT ![r] = tok]
            /\ span_name' = [span_name EXCEPT ![r] = cb.name.s]
            /\ spans' = [spans EXCEPT
                           ![r] = <<IF is_recording(root)
                                    THEN SetAttributes(root,
                                           DictUpdate(attributes.attrs,
                                                      cb.attrs))
                                    ELSE root>>]
            /\ cur' = SetCurrent(r, Ctx(LocalSpan(r, 1), ctx.suppress))
            /\ log' = [log EXCEPT ![r] = @ \o Opening(tok) \o
                                               <<Ev("app_call", 0)>>]
    /\ pc' = [pc EXCEPT ![r] = "app"]
    /\ given' = [given EXCEPT ![r] = GivenWrapped]
    /\ app_scope' = [app_scope EXCEPT ![r] = Append(@, PassedScope(scope[r]))]
    /\ scope' = [scope EXCEPT ![r] = ScopeRead(@)]
    /\ UNCHANGED <<fnvars, libvars, excluded_urls, span_details_callback, tasks,
                   budget, sampled,
                   calls, appOutcome, result>>

\* ------------------------------------------------- wrapped receive and send
Call(kind, inline, span, st, msg) ==
    [kind |-> kind, inline |-> inline, span |-> span, st |-> st, msg |-> msg]
Awaiting(r) == {c \in 1..Len(calls[r]) : calls[r][c].st = "awaiting"}
\* the application's own task is suspended in a call it awaits inline
MainSuspended(r) == \E c \in Awaiting(r) : calls[r][c].inline
\* the context of the application's code: the one of its task while it runs;
\* a task the application creates gets a copy of it
AppContext(r) ==
    IF MainSuspended(r)
    THEN LET c == CHOOSE c \in Awaiting(r) : calls[r][c].inline
         IN spans[r][calls[r][c].span].token.old
    ELSE cur[r]

\* the application may call receive or send: in its own task (inline) when
\* that task is not suspended, or in a task it created before
MayCall(r, inline) ==
    /\ pc[r] = "app"
    /\ Len(calls[r]) < budget[r]
    /\ IF inline THEN ~MainSuspended(r) ELSE tasks[r]

\* the sampler's decision for a span with a local parent: the parent's
Sampled(ctx) ==
    ctx.span.k = "local" /\ spans[ctx.span.req][ctx.span.idx].recording

\* the fault in which a child span is named without the root span's name
ChildSpanBareName(r, ctx, suffix) ==
    [StartSpan(ctx, scope[r].type \o suffix, "INTERNAL", Sampled(ctx))
        EXCEPT !.token = context_attach(r, ctx)]
\* lines 198-200, 210-212: the child span of a wrapper, current in the
\* caller's context
ChildSpan(r, ctx, suffix) ==
    [StartSpan(ctx, span_name[r] \o S_asgi \o <<".">> \o scope[r].type
                    \o suffix, "INTERNAL", Sampled(ctx))
        EXCEPT !.token = context_attach(r, ctx)]

\* lines 197-201: wrapped_receive() up to the await of receive()
WrappedReceiveCall(r, inline) ==
    /\ MayCall(r, inline)
    /\ given[r].receive = "wrapped"
    /\ LET ctx == IF inline THEN cur[r] ELSE AppContext(r)
           idx == Len(spans[r]) + 1
           child == ChildSpan(r, ctx, S_receive)
       IN /\ spans' = [spans EXCEPT ![r] = Append(@, child)]
          /\ calls' = [calls EXCEPT
                         ![r] = Append(@, Call("receive", inline, idx,
                                               "awaiting", NoMsg))]
          /\ cur' = SetCurrent(r, IF inline
                                       THEN Ctx(LocalSpan(r, idx), ctx.suppress)
                                       ELSE cur[r])
          /\ log' = [log EXCEPT ![r] = @ \o <<Ev("span_start", idx),
                                              Ev("receive", idx)>>]
    /\ scope' = [scope EXCEPT ![r] = ScopeRead(@)]
    /\ UNCHANGED <<fnvars, libvars, app_scope, excluded_urls, span_details_callback, tasks,
                   budget, sampled,
                   pc, given, token, span_name, appOutcome, result>>

\* the fault in which the child span is ended by hand after the await
ChildExitNoWith(span, exc) == IF exc = "" THEN ExitSpan(span, exc) ELSE span
\* lines 198-200, 210-212: the child span is opened by a with statement,
\* which ends it however the block is left
ChildExit(span, exc) == ExitSpan(span, exc)

\* the fault in which the context is one per request, shared by the tasks of
\* the application: a call made in a task restores it as well
LeaveChildAnyTask(r, c, span, exc) ==
    /\ spans' = [spans EXCEPT ![r][calls[r][c].span] = ChildExit(span, exc)]
    /\ cur' = SetCurrent(r, context_detach(r, cur[r], span.token))
\* leaving the with block of a child span: the span is ended and, in the
\* task of the call, the context before the span is restored
LeaveChild(r, c, span, exc) ==
    /\ spans' = [spans EXCEPT ![r][calls[r][c].span] = ChildExit(span, exc)]
    /\ cur' = SetCurrent(r, IF calls[r][c].inline
                            THEN context_detach(r, cur[r], span.token)
                            ELSE cur[r])

\* the fault in which every received message gets status 200
AnnotateReceiveAlways200(receive_span, message) ==
    IF ~is_recording(receive_span) THEN [span |-> receive_span, raised |-> ""]
    ELSE IF message.type.t = "none"
    THEN [span |-> receive_span, raised |-> "KeyError"]
    ELSE [span |-> set_attribute(set_status_code(receive_span, IntV(200)).span,
                                 "type", message.type),
          raised |-> ""]
\* lines 202-205: what wrapped_receive does to a recording span with the
\* message it received: [span, raised]
AnnotateReceive(receive_span, message) ==
    IF ~is_recording(receive_span) THEN [span |-> receive_span, raised |-> ""]
    ELSE IF message.type.t = "none"
    THEN [span |-> receive_span, raised |-> "KeyError"]
    ELSE LET coded == IF message.type = M_websocket_receive
                      THEN set_status_code(receive_span, IntV(200)).span
                      ELSE receive_span
         IN [span |-> set_attribute(coded, "type", message.type),
             raised |-> ""]

\* lines 201-206: receive() returns message
ReceiveReturns(r, c, message) ==
    /\ pc[r] = "app"
    /\ c \in Awaiting(r)
    /\ calls[r][c].kind = "receive"
    /\ message \in RecvMessages(scope[r].type)
    /\ LET noted == AnnotateReceive(spans[r][calls[r][c].span], message)
       IN /\ LeaveChild(r, c, noted.span, noted.raised)
          /\ calls' = [calls EXCEPT
                         ![r][c].st = "done",
                         ![r][c].msg = IF noted.raised = "" THEN message
                                       ELSE NoMsg]
    /\ log' = [log EXCEPT ![r] = @ \o <<Ev("span_end", calls[r][c].span)>>]
    /\ UNCHANGED <<fnvars, libvars, app_scope, excluded_urls, span_details_callback, scope, tasks,
                   budget, sampled,
                   pc, given, token, span_name, appOutcome, result>>

\* the fault in which wrapped_send does not ask is_recording
AnnotateSendUnguarded(send_span, message) ==
    IF message.type.t = "none"
    THEN [span |-> send_span, raised |-> "KeyError"]
    ELSE LET coded ==
                 IF message.type = M_http_response_start
                 THEN set_status_code(send_span, message.status)
                 ELSE IF message.type = M_websocket_send
                 THEN set_status_code(send_span, IntV(200))
                 ELSE [span |-> send_span, raised |-> ""]
         IN IF coded.raised # "" THEN coded
            ELSE [span |-> set_attribute(coded.span, "type", message.type),
                  raised |-> ""]
\* lines 213-219: what wrapped_send does to a recording span before it
\* forwards the message: [span, raised]
AnnotateSend(send_span, message) ==
    IF ~is_recording(send_span) THEN [span |-> send_span, raised |-> ""]
    ELSE IF message.type.t = "none"
    THEN [span |-> send_span, raised |-> "KeyError"]
    ELSE LET coded ==
                 IF message.type = M_http_response_start
                 THEN set_status_code(send_span, message.status)
                 ELSE IF message.type = M_websocket_send
                 THEN set_status_code(send_span, IntV(200))
                 ELSE [span |-> send_span, raised |-> ""]
         IN IF coded.raised # "" THEN coded
            ELSE [span |-> set_attribute(coded.span, "type", message.type),
                  raised |-> ""]

\* lines 196-206: one call of wrapped_receive whose child span is
\* receive_span, when the underlying receive returns message: the span
\* afterwards, what is raised, what is returned to the application
wrapped_receive(receive_span, message) ==
    LET noted == AnnotateReceive(receive_span, message)
    IN [span |-> ChildExit(noted.span, noted.raised), raised |-> noted.raised,
        returned |-> IF noted.raised = "" THEN <<message>> ELSE <<>>]
\* lines 208-220: one call of wrapped_send(message) whose child span is
\* send_span, when the underlying send returns: the span afterwards, what is
\* raised, what is forwarded to the underlying send
wrapped_send(send_span, message) ==
    LET noted == AnnotateSend(send_span, message)
    IN [span |-> ChildExit(noted.span, noted.raised), raised |-> noted.raised,
        forwarded |-> IF noted.raised = "" THEN <<message>> ELSE <<>>]

\* lines 209-220: wrapped_send(message) up to the await of send(message)
WrappedSendCall(r, inline, message) ==
    /\ MayCall(r, inline)
    /\ given[r].send = "wrapped"
    /\ message \in SendMessages(scope[r].type)
    /\ LET ctx == IF inline THEN cur[r] ELSE AppContext(r)
           idx == Len(spans[r]) + 1
           child == ChildSpan(r, ctx, S_send)
           noted == AnnotateSend(child, message)
       IN IF noted.raised # ""
          THEN /\ spans' = [spans EXCEPT
                              ![r] = Append(@, ChildExit(noted.span,
                                                         noted.raised))]
               /\ calls' = [calls EXCEPT
                              ![r] = Append(@, Call("send", inline, idx,
                                                    "done", message))]
               /\ cur' = cur
               /\ log' = [log EXCEPT ![r] = @ \o <<Ev("span_start", idx),
                                                   Ev("span_end", idx)>>]
          ELSE /\ spans' = [spans EXCEPT ![r] = Append(@, noted.span)]
               /\ calls' = [calls EXCEPT
                              ![r] = Append(@, Call("send", inline, idx,
                                                    "awaiting", message))]
               /\ cur' = SetCurrent(r, IF inline
                                   THEN Ctx(LocalSpan(r, idx), ctx.suppress)
                                   ELSE cur[r])
               /\ log' = [log EXCEPT ![r] = @ \o <<Ev("span_start", idx),
                                                   Ev("send", idx)>>]
    /\ scope' = [scope EXCEPT ![r] = ScopeRead(@)]
    /\ UNCHANGED <<fnvars, libvars, app_scope, excluded_urls, span_details_callback, tasks,
                   budget, sampled,
                   pc, given, token, span_name, appOutcome, result>>

\* line 220 and the end of the with block: send(message) returns
SendReturns(r, c) ==
    /\ pc[r] = "app"
    /\ c \in Awaiting(r)
    /\ calls[r][c].kind = "send"
    /\ LeaveChild(r, c, spans[r][calls[r][c].span], "")
    /\ calls' = [calls EXCEPT ![r][c].st = "done"]
    /\ log' = [log EXCEPT ![r] = @ \o <<Ev("span_end", calls[r][c].span)>>]
    /\ UNCHANGED <<fnvars, libvars, app_scope, excluded_urls, span_details_callback, scope, tasks,
                   budget, sampled,
                   pc, given, token, span_name, appOutcome, result>>

\* lines 201, 220: the underlying receive or send raises e
UnderlyingRaises(r, c, e) ==
    /\ pc[r] = "app"
    /\ c \in Awaiting(r)
    /\ LeaveChild(r, c, spans[r][calls[r][c].span], e)
    /\ calls' = [calls EXCEPT ![r][c].st = "done"]
    /\ log' = [log EXCEPT ![r] = @ \o <<Ev("span_end", calls[r][c].span)>>]
    /\ UNCHANGED <<fnvars, libvars, app_scope, excluded_urls, span_details_callback, scope, tasks,
                   budget, sampled,
                   pc, given, token, span_name, appOutcome, result>>

\* lines 177, 181: the application calls the original receive or send
PlainCall(r, kind) ==
    /\ MayCall(r, TRUE)
    /\ given[r][kind] = "original"
    /\ calls' = [calls EXCEPT
                   ![r] = Append(@, Call(kind, TRUE, 0, "done", NoMsg))]
    /\ log' = [log EXCEPT ![r] = @ \o <<Ev(kind, 0)>>]
    /\ UNCHANGED <<fnvars, libvars, app_scope, excluded_urls, span_details_callback, scope, tasks,
                   budget, sampled,
                   pc, given, cur, token, span_name, spans, appOutcome,
                   result>>

\* ------------------------------------------------- the end of self.app(...)
\* the fault in which the root span is ended by hand and an exception is
\* not recorded
RootExitUnmarked(span, exc) == [span EXCEPT !.ended = TRUE]
\* lines 187-189: leaving the with block of the root span
RootExit(span, exc) == ExitSpan(span, exc)
\* the fault in which the detach follows the with block without a finally clause
DetachRunsNoFinally(exc) == exc = ""
\* lines 186, 223-224: the detach is in a finally clause
DetachRuns(exc) == TRUE
\* the fault in which __call__ catches the application's exception
PropagateSwallowed(out) ==
    IF out.kind = "raise" THEN [kind |-> "return", exc |-> ""] ELSE out
\* lines 177, 181, 222-224: __call__ catches nothing
Propagate(out) == out

ExcOf(out) == IF out.kind = "return" THEN "" ELSE out.exc

\* the spans of the calls that await the underlying receive or send
AwaitingSpans(r) == {calls[r][c].span : c \in Awaiting(r)}
RECURSIVE EndEvents(_, _)
EndEvents(r, i) ==
    IF i > Len(spans[r]) THEN <<>>
    ELSE (IF i \in AwaitingSpans(r) THEN <<Ev("span_end", i)>> ELSE <<>>)
         \o EndEvents(r, i + 1)

\* the call of self.app ends with outcome out; a cancellation reaches the
\* calls that are suspended in the underlying receive or send first.
\* In the active branch the root span's with block is left, then the finally
\* clause runs, then the outcome reaches the caller of the middleware.
AppEnds(r, out) ==
    /\ pc[r] = "app"
    /\ pc' = [pc EXCEPT ![r] = "done"]
    /\ appOutcome' = [appOutcome EXCEPT ![r] = out]
    /\ result' = [result EXCEPT ![r] = Propagate(out)]
    /\ calls' = [calls EXCEPT
                   ![r] = [c \in 1..Len(@) |->
                             IF @[c].st = "awaiting"
                             THEN [@[c] EXCEPT !.st = "cancelled"] ELSE @[c]]]
    /\ IF spans[r] # <<>>
       THEN LET exc == ExcOf(out)
                root == spans[r][1]
                inner == AppContext(r)
            IN /\ spans' = [spans EXCEPT
                              ![r] = [i \in 1..Len(@) |->
                                        IF i = 1 THEN RootExit(@[i], exc)
                                        ELSE IF i \in AwaitingSpans(r)
                                        THEN ChildExit(@[i], exc)
                                        ELSE @[i]]]
               /\ cur' = SetCurrent(r, IF DetachRuns(exc)
                                   THEN context_detach(r,
                                          context_detach(r, inner, root.token),
                                          token[r])
                                   ELSE context_detach(r, inner, root.token))
               /\ log' = [log EXCEPT
                            ![r] = @ \o EndEvents(r, 2) \o
                                   <<Ev("app_end", 0), Ev("span_end", 1)>> \o
                                   (IF DetachRuns(exc)
                                    THEN <<Event("detach", 0, token[r])>>
                                    ELSE <<>>) \o
                                   <<Ev("surface", 0)>>]
       ELSE /\ log' = [log EXCEPT ![r] = @ \o <<Ev("app_end", 0),
                                                Ev("surface", 0)>>]
            /\ UNCHANGED <<spans, cur>>
    /\ UNCHANGED <<fnvars, libvars, app_scope, excluded_urls, span_details_callback, scope, tasks,
                   budget, sampled,
                   given, token, span_name>>

\* self.app returns
AppReturns(r) ==
    /\ Awaiting(r) = {}
    /\ AppEnds(r, Outcome("return", ""))

\* self.app raises e
AppRaises(r, e) ==
    /\ Awaiting(r) = {}
    /\ AppEnds(r, Outcome("raise", e))

\* the task of the request is cancelled while __call__ awaits self.app
Cancel(r) == AppEnds(r, Outcome("cancel", Cancelled))

\* ------------------------------------------------------ the specifications
Next ==
    \E r \in Requests :
        \/ PassThroughType(r)
        \/ PassThroughExcluded(r)
        \/ ActivateExtractRaises(r)
        \/ ActivateCallbackRaises(r)
        \/ ActivateNameRaises(r)
        \/ ActivateAttrsRaise(r)
        \/ Activate(r)
        \/ \E inline \in BOOLEAN : WrappedReceiveCall(r, inline)
        \/ \E c \in 1..MaxCalls, m \in RecvMessages(scope[r].type) :
               ReceiveReturns(r, c, m)
        \/ \E inline \in BOOLEAN, m \in SendMessages(scope[r].type) :
               WrappedSendCall(r, inline, m)
        \/ \E c \in 1..MaxCalls : SendReturns(r, c)
        \/ \E c \in 1..MaxCalls, e \in TransportErrors :
               UnderlyingRaises(r, c, e)
        \/ \E kind \in {"receive", "send"} : PlainCall(r, kind)
        \/ AppReturns(r)
        \/ \E e \in Exceptions : AppRaises(r, e)
        \/ Cancel(r)

\* one request at a time
Spec == Init /\ [][Next]_vars

\* several requests at the same time, none of them passed through
NextConc ==
    \E r \in Requests :
        \/ Activate(r)
        \/ \E inline \in BOOLEAN : WrappedReceiveCall(r, inline)
        \/ \E c \in 1..MaxCalls, m \in RecvMessages(scope[r].type) :
               ReceiveReturns(r, c, m)
        \/ \E inline \in BOOLEAN, m \in SendMessages(scope[r].type) :
               WrappedSendCall(r, inline, m)
        \/ \E c \in 1..MaxCalls : SendReturns(r, c)
        \/ \E c \in 1..MaxCalls, e \in TransportErrors :
               UnderlyingRaises(r, c, e)
        \/ AppReturns(r)
        \/ \E e \in Exceptions : AppRaises(r, e)
        \/ Cancel(r)

SpecConc == InitConc /\ [][NextConc]_vars

\* ------------------------------------------- the functions, called on their own
\* headers a carrier holds at most
MaxHeaders == 2
\* patterns an exclusion list holds at most
MaxPatterns == 2

\* the sequences over S of length n at most
SeqsUpTo(S, n) == UNION {[1..m -> S] : m \in 0..n}

S_Host == <<"H", "o", "s", "t">>
S_HOST == <<"H", "O", "S", "T">>
S_https == <<"h", "t", "t", "p", "s">>
S_ws == <<"w", "s">>
S_wss == <<"w", "s", "s">>

\* carriers: the headers of a scope, or a scope without headers
HeaderPool == {<<S_host, <<"a">>>>, <<S_host, <<"b">>>>,
               <<S_traceparent, TP1>>, <<S_user_agent, <<"u">>>>}
HeaderLists == SeqsUpTo(HeaderPool, MaxHeaders)
WithHeaders(sc, headers) == [sc EXCEPT !.headers.list = headers]
Carriers == {WithHeaders(ScopeGet, h) : h \in HeaderLists}
            \cup {WithoutHeaders(ScopeGet)}
HeaderKeys == {S_host, S_Host, S_HOST, S_traceparent, S_user_agent, <<"x">>}

\* scopes: scheme, server, method, headers and query string vary
Schemes == {Str(S_http), Str(S_https), Str(S_ws), Str(S_wss), NoneV}
Servers == {[host |-> NoneV, port |-> 80], [host |-> Str(<<"a">>), port |-> 80],
            [host |-> Str(<<"a">>), port |-> 443],
            [host |-> Str(<<"a">>), port |-> 8080]}
Queries == {NoneV, Str(<<>>), Str(<<"q">>), Str(<<"a", "%", "2", "0", "b">>),
            Str(<<"q", BadByte>>)}
ScopeOf(scheme, server, method, headers, query) ==
    MkScope(IF scheme \in {Str(S_ws), Str(S_wss)} THEN S_websocket ELSE S_http,
            scheme, server.host, server.port, Str(P_foobar), method, headers,
            query)
\* the application mounted under a root path
P_root == <<"/", "r">>
WithRootPath(sc, root) == [sc EXCEPT !.root_path = Str(root)]
FnScopes ==
    {ScopeOf(scheme, server, method, headers, query) :
        scheme \in Schemes, server \in Servers,
        method \in {Str(S_GET), NoneV}, headers \in HeaderLists,
        query \in Queries}
    \cup {WithRootPath(ScopeOf(scheme, server, Str(S_GET), <<>>, query),
                       P_root) :
             scheme \in Schemes, server \in Servers, query \in Queries}
    \cup {WithoutHeaders(ScopeWs)}
\* scopes the naming strategy is given: those above, and one without a path
NamedScopes == FnScopes \cup {ScopeWs, ScopeLifespan}

\* the clock of generate_trace_id in seconds, and what os.urandom gives
Clocks == {0, 1000, 268435455, 268435456, 1793664000, 2147483647}
RandomHex == {[i \in 1..(2 * RandomBytes) |-> c] : c \in {"0", "9", "f"}}

\* exclusion lists and urls
PatternPool == {<<"h", "z">>, <<"/", "f">>, <<"z", "/">>, <<>>}
PatternLists == SeqsUpTo(PatternPool, MaxPatterns)
Urls == {<<"a", "/", "f">>, <<"a", "/", "h", "z">>, <<"h", "/", "z">>, <<>>}

\* scopes and patterns for the exclusion test: a pattern for each part of a
\* url, one for the query string and one for the method
OtherClient(sc) == [sc EXCEPT !.client = [given |-> TRUE, ip |-> <<"d">>,
                                          port |-> 7]]
ExclScopes ==
    LET plain == {ScopeOf(scheme, server, method, headers, query) :
                     scheme \in {Str(S_http), Str(S_https), NoneV},
                     server \in Servers,
                     method \in {Str(S_GET), NoneV},
                     headers \in {<<>>, <<<<S_host, <<"b">>>>>>},
                     query \in {NoneV, Str(<<"q">>)}}
    IN plain \cup {WithRootPath(sc, P_root) : sc \in plain}
             \cup {OtherClient(sc) : sc \in plain}
ExclPatternPool == {<<"s", ":">>, <<"a", ":", "8">>, <<"r", "/">>, <<"q">>,
                    <<"G">>}
ExclPatternLists == SeqsUpTo(ExclPatternPool, MaxPatterns)

\* values of OTEL_PYTHON_STARLETTE_EXCLUDED_URLS: unset, empty, entries with
\* and without blanks, and commas at the end, at the start and doubled
EnvValues ==
    {NoneV, Str(<<>>), Str(<<"h", "z">>), Str(<<"h", "z", ",", "/", "f">>),
     Str(<<" ", "h", "z", " ", ",", " ", "/", "f">>),
     Str(<<"h", "z", ",">>), Str(<<",", "h", "z">>),
     Str(<<"h", "z", ",", ",", "/", "f">>), Str(<<"h", "z", ",", " ">>),
     Str(<<" ">>), Str(<<"x", ",", "y">>)}

\* status codes of a response start message, and spans
StatusCodes ==
    {IntV(n) : n \in {99, 100, 200, 302, 399, 400, 404, 499, 500, 599}}
    \cup {Str(<<"2", "0", "0">>), Str(<<"4", "0", "4">>),
          Str(<<"a", "b", "c">>), Str(<<"2", "x">>), Str(<<>>), NoneV}
FnSpans == {StartSpan(Ctx(NoSpan, FALSE), <<"s">>, "INTERNAL", recording) :
               recording \in BOOLEAN}

\* messages of the transport and of the application: every status of a
\* response start, and a message without "type"
FnMessages ==
    {Msg(M_http_response_start, c) : c \in StatusCodes}
    \cup {Msg(M_http_response_body, NoneV), Msg(M_http_request, NoneV),
          Msg(M_websocket_send, NoneV), Msg(M_websocket_receive, NoneV),
          Msg(M_websocket_connect, NoneV), NoMsg}

\* the calls: a function and its arguments
FnCalls ==
    {<<"get", [NoArgs EXCEPT !.carrier = c, !.key = k]>> :
        c \in Carriers, k \in HeaderKeys}
    \cup {<<"keys", [NoArgs EXCEPT !.carrier = c]>> : c \in Carriers}
    \cup {<<"collect_request_attributes", [NoArgs EXCEPT !.carrier = sc]>> :
             sc \in FnScopes}
    \cup {<<"get_host_port_url_tuple", [NoArgs EXCEPT !.carrier = sc]>> :
             sc \in FnScopes}
    \cup {<<"url_disabled", [NoArgs EXCEPT !.excluded = ps, !.url = u]>> :
             ps \in PatternLists, u \in Urls}
    \cup {<<"set_status_code", [NoArgs EXCEPT !.span = sp, !.status_code = c]>> :
             sp \in FnSpans, c \in StatusCodes}
    \cup {<<"get_default_span_details", [NoArgs EXCEPT !.carrier = sc]>> :
             sc \in NamedScopes}
    \cup {<<"generate_trace_id", [NoArgs EXCEPT !.clock = t, !.random = b]>> :
             t \in Clocks, b \in RandomHex}
    \cup {<<"is_excluded", [NoArgs EXCEPT !.carrier = sc, !.excluded = ps]>> :
             sc \in ExclScopes, ps \in ExclPatternLists}
    \cup {<<"get_excluded_urls", [NoArgs EXCEPT !.env = e, !.url = u]>> :
             e \in EnvValues, u \in Urls}
    \cup {<<wrapper, [NoArgs EXCEPT !.span = sp, !.message = m]>> :
             wrapper \in {"wrapped_receive", "wrapped_send"},
             sp \in FnSpans, m \in FnMessages}

\* no request arrives; one function is about to be called with its arguments
InitFn ==
    /\ InitLib
    /\ excluded_urls = NoExcludeList
    /\ span_details_callback = "default"
    /\ scope = [r \in Requests |-> ScopeGet]
    /\ cur = [r \in Requests |-> Ctx(NoSpan, FALSE)]
    /\ tasks = [r \in Requests |-> FALSE]
    /\ budget = [r \in Requests |-> 0]
    /\ sampled = [r \in Requests |-> FALSE]
    /\ pc = [r \in Requests |-> "off"]
    /\ InitLocals
    /\ \E call \in FnCalls : fn = call[1] /\ fn_args = call[2]
    /\ fn_done = FALSE
    /\ fn_ret = <<>>

\* the function name is called with its arguments and gives value
Returns(name, value) ==
    /\ fn = name
    /\ ~fn_done
    /\ fn_done' = TRUE
    /\ fn_ret' = value
    /\ UNCHANGED <<reqvars, libvars, fn, fn_args>>

ApplyGet == Returns("get", CarrierGetter_get(fn_args.carrier, fn_args.key))
ApplyKeys == Returns("keys", CarrierGetter_keys(fn_args.carrier))
ApplyCollect ==
    Returns("collect_request_attributes",
            collect_request_attributes(fn_args.carrier))
ApplyHostPortUrl ==
    Returns("get_host_port_url_tuple",
            get_host_port_url_tuple(fn_args.carrier))
ApplyUrlDisabled ==
    Returns("url_disabled", url_disabled(fn_args.excluded, fn_args.url))
ApplySetStatusCode ==
    Returns("set_status_code",
            set_status_code(fn_args.span, fn_args.status_code))

ApplyDefaultSpanDetails ==
    Returns("get_default_span_details",
            get_default_span_details(fn_args.carrier))
ApplyGenerateTraceId ==
    Returns("generate_trace_id",
            generate_trace_id(fn_args.clock, fn_args.random))

ApplyIsExcluded ==
    Returns("is_excluded",
            IsExcluded(ExcludeList(fn_args.excluded), fn_args.carrier))
\* _get_excluded_urls().url_disabled(url)
ApplyGetExcludedUrls ==
    Returns("get_excluded_urls",
            url_disabled(get_excluded_urls(fn_args.env), fn_args.url))
ApplyWrappedReceive ==
    Returns("wrapped_receive", wrapped_receive(fn_args.span, fn_args.message))
ApplyWrappedSend ==
    Returns("wrapped_send", wrapped_send(fn_args.span, fn_args.message))

NextFn ==
    \/ ApplyGet
    \/ ApplyKeys
    \/ ApplyCollect
    \/ ApplyHostPortUrl
    \/ ApplyUrlDisabled
    \/ ApplySetStatusCode
    \/ ApplyDefaultSpanDetails
    \/ ApplyGenerateTraceId
    \/ ApplyIsExcluded
    \/ ApplyGetExcludedUrls
    \/ ApplyWrappedReceive
    \/ ApplyWrappedSend

SpecFn == InitFn /\ [][NextFn]_vars

\* ---------------------------------------------------------- the instrumentors
\* applications the program constructs, and connections it opens, at most
MaxApps == 2
MaxConnections == 2

\* BaseInstrumentor.instrument() runs _instrument() unless the instrumentor
\* is switched on already, uninstrument() runs _uninstrument() if it is
MayInstrument(name) == ~is_instrumented[name]
MayUninstrument(name) == is_instrumented[name]

\* the fault in which _uninstrument leaves the instrumented class in place
starlette_uninstrument_keeps(current, original) == current
\* StarletteInstrumentor._uninstrument: the class applications.Starlette
\* names afterwards
starlette_uninstrument(current, original) == original

\* StarletteInstrumentor().instrument()
StarletteInstrument ==
    /\ MayInstrument("starlette")
    /\ original_starlette' = applications_Starlette
    /\ applications_Starlette' = "_InstrumentedStarlette"
    /\ is_instrumented' = [is_instrumented EXCEPT !.starlette = TRUE]
    /\ UNCHANGED <<reqvars, fnvars, apps, pymssql_connect, connections,
                   executed, returned>>

\* StarletteInstrumentor().uninstrument()
StarletteUninstrument ==
    /\ MayUninstrument("starlette")
    /\ applications_Starlette' =
           starlette_uninstrument(applications_Starlette, original_starlette)
    /\ is_instrumented' = [is_instrumented EXCEPT !.starlette = FALSE]
    /\ UNCHANGED <<reqvars, fnvars, original_starlette, apps, pymssql_connect,
                   connections, executed, returned>>

\* cls(): Starlette.__init__ adds no tracing middleware,
\* _InstrumentedStarlette.__init__ adds one after it
Construct(cls) ==
    [cls |-> cls,
     middleware |-> IF cls = "_InstrumentedStarlette" THEN 1 ELSE 0,
     is_instrumented_by_opentelemetry |-> FALSE]
\* app = applications.Starlette()
NewApp ==
    /\ Len(apps) < MaxApps
    /\ apps' = Append(apps, Construct(applications_Starlette))
    /\ UNCHANGED <<reqvars, fnvars, applications_Starlette,
                   original_starlette, is_instrumented, pymssql_connect,
                   connections, executed, returned>>

\* StarletteInstrumentor.instrument_app(app)
instrument_app(app) ==
    IF ~app.is_instrumented_by_opentelemetry
    THEN [app EXCEPT !.middleware = @ + 1,
                     !.is_instrumented_by_opentelemetry = TRUE]
    ELSE app
InstrumentApp(i) ==
    /\ i \in 1..Len(apps)
    /\ instrument_app(apps[i]) # apps[i]
    /\ apps' = [apps EXCEPT ![i] = instrument_app(@)]
    /\ UNCHANGED <<reqvars, fnvars, applications_Starlette,
                   original_starlette, is_instrumented, pymssql_connect,
                   connections, executed, returned>>

\* PyMSSQLInstrumentor().instrument(): dbapi.wrap_connect(pymssql, "connect")
PyMSSQLInstrument ==
    /\ MayInstrument("pymssql")
    /\ pymssql_connect' = "wrapped"
    /\ is_instrumented' = [is_instrumented EXCEPT !.pymssql = TRUE]
    /\ UNCHANGED <<reqvars, fnvars, applications_Starlette,
                   original_starlette, apps, connections, executed, returned>>

\* PyMSSQLInstrumentor().uninstrument(): dbapi.unwrap_connect
PyMSSQLUninstrument ==
    /\ MayUninstrument("pymssql")
    /\ pymssql_connect' = "connect"
    /\ is_instrumented' = [is_instrumented EXCEPT !.pymssql = FALSE]
    /\ UNCHANGED <<reqvars, fnvars, applications_Starlette,
                   original_starlette, apps, connections, executed, returned>>

\* a connection: a traced proxy (wrapped_connection returns
\* get_traced_connection_proxy) or the library's own
Connection(traced, wraps) == [traced |-> traced, wraps |-> wraps]
\* pymssql.connect(...)
Connect ==
    /\ Len(connections) < MaxConnections
    /\ connections' = Append(connections,
                             Connection(pymssql_connect = "wrapped", 0))
    /\ UNCHANGED <<reqvars, fnvars, applications_Starlette,
                   original_starlette, is_instrumented, apps, pymssql_connect,
                   executed, returned>>

\* the attributes the class PyMSSQLInstrumentor defines
PyMSSQLInstrumentorAttributes == {"_DATABASE_SYSTEM"}
\* PyMSSQLInstrumentor.instrument_connection(connection): the arguments of
\* dbapi.instrument_connection are evaluated first, self._DATABASE_SYSTEM
\* and self._CONNECTION_ATTRIBUTES among them; then the traced proxy of the
\* connection is returned
instrument_connection(c) ==
    IF {"_DATABASE_SYSTEM", "_CONNECTION_ATTRIBUTES"}
           \subseteq PyMSSQLInstrumentorAttributes
    THEN [raised |-> "", proxy |-> <<Connection(TRUE, c)>>]
    ELSE [raised |-> "AttributeError", proxy |-> <<>>]
InstrumentConnection(c) ==
    /\ c \in 1..Len(connections)
    /\ LET call == instrument_connection(c)
       IN /\ connections' = connections \o call.proxy
          /\ returned' = [conn |-> c, raised |-> call.raised,
                          result |-> IF call.raised = ""
                                     THEN Len(connections) + 1 ELSE 0]
    /\ returned' # returned
    /\ UNCHANGED <<reqvars, fnvars, applications_Starlette,
                   original_starlette, is_instrumented, apps, pymssql_connect,
                   executed>>

\* connection.cursor().execute(statement): a traced connection makes one
\* span of it
Execute(c) ==
    /\ c \in 1..Len(connections)
    /\ executed' = [conn |-> c,
                    spans |-> IF connections[c].traced THEN 1 ELSE 0]
    /\ executed' # executed
    /\ UNCHANGED <<reqvars, fnvars, applications_Starlette,
                   original_starlette, is_instrumented, apps, pymssql_connect,
                   connections, returned>>

\* no request arrives and no function is called on its own
InitInstr ==
    /\ InitLib
    /\ InitNoCall
    /\ excluded_urls = NoExcludeList
    /\ span_details_callback = "route"
    /\ scope = [r \in Requests |-> ScopeGet]
    /\ cur = [r \in Requests |-> Ctx(NoSpan, FALSE)]
    /\ tasks = [r \in Requests |-> FALSE]
    /\ budget = [r \in Requests |-> 0]
    /\ sampled = [r \in Requests |-> FALSE]
    /\ pc = [r \in Requests |-> "off"]
    /\ InitLocals

NextInstr ==
    \/ StarletteInstrument
    \/ StarletteUninstrument
    \/ NewApp
    \/ \E i \in 1..MaxApps : InstrumentApp(i)
    \/ PyMSSQLInstrument
    \/ PyMSSQLUninstrument
    \/ Connect
    \/ \E c \in 1..MaxConnections : InstrumentConnection(c)
    \/ \E c \in 1..MaxConnections : Execute(c)

SpecInstr == InitInstr /\ [][NextInstr]_vars


\* ------------------------------------------------------------- the claims
\* positions of the events ev (about span n) in the log of request r
At(r, ev, n) == {i \in 1..Len(log[r]) : log[r][i].ev = ev /\ log[r][i].n = n}
Attaches(r) == At(r, "attach", 0)
Detaches(r) == At(r, "detach", 0)
\* there is one event ev about n in the log of r, before the one ev2 about n2
Before(r, ev, n, ev2, n2) ==
    \A i \in At(r, ev, n), j \in At(r, ev2, n2) : i < j
\* the middleware activated request r and called the application
Activated(r) == given[r] # GivenNone /\ spans[r] # <<>>
\* the call of the application has ended
AppEnded(r) == appOutcome[r].kind # "none"
\* the wrapped receive/send calls the application of r has made
\* the url of r matches a pattern of the configured exclusion list
UrlMatches(r) ==
    /\ excluded_urls.given
    /\ \E i \in 1..Len(excluded_urls.patterns) :
         IsSubstring(excluded_urls.patterns[i],
                     get_host_port_url_tuple(scope[r])[3])
Arrived(r) == pc[r] \in {"app", "done"}

\* C1: for every activated request, once the call of the application has
\* ended (return, exception or cancellation), the root span is ended and
\* context.detach has been called exactly once, with the token that the
\* request's own context.attach returned.
C1_RootEndedDetachedOnce ==
    \A r \in Requests :
        Activated(r) /\ AppEnded(r) =>
            /\ spans[r][1].ended
            /\ Cardinality(At(r, "span_end", 1)) = 1
            /\ Cardinality(Attaches(r)) = 1
            /\ Cardinality(Detaches(r)) = 1
            /\ \A i \in Attaches(r), j \in Detaches(r) :
                 /\ log[r][j].tok = log[r][i].tok
                 /\ log[r][j].tok.owner = r
                 /\ log[r][j].tok = token[r]
C1_Witness ==
    \E r \in Requests :
        /\ Activated(r)
        /\ appOutcome[r].kind = "raise"
        /\ Detaches(r) # {}
        /\ spans[r][1].ended

\* C2 as stated: every non-excluded http request produces exactly one root
\* span plus one child span per wrapped receive and send call, the child
\* spans inside the root span's interval.
SpanCountAndNesting(r) ==
    /\ Len(spans[r]) = 1 + Len(calls[r])
    /\ spans[r][1].parent.k # "local"
    /\ \A i \in 2..Len(spans[r]) :
         /\ Before(r, "span_start", 1, "span_start", i)
         /\ Before(r, "span_end", i, "span_end", 1)
         /\ spans[r][1].ended => spans[r][i].ended
C3_ExcludedPassesThrough ==
    \A r \in Requests :
        Arrived(r) /\ IsTracedType(scope[r].type) /\ UrlMatches(r) =>
            /\ spans[r] = <<>>
            /\ Attaches(r) = {}
            /\ token[r] = NoToken
            /\ cur[r].span = NoSpan
            /\ given[r] = GivenOriginal
            /\ At(r, "app_call", 0) # {}
            /\ pc[r] = "done" => AppEnded(r) /\ result[r] = appOutcome[r]
C3_Witness ==
    \E r \in Requests :
        /\ pc[r] = "done"
        /\ IsTracedType(scope[r].type)
        /\ UrlMatches(r)
        /\ calls[r] # <<>>
        /\ result[r].kind = "return"

\* C4 as stated: with the suppression flag in the ambient context, a request
\* produces no span although its url is not excluded.
C4_SuppressedProducesNoSpan ==
    \A r \in Requests : cur[r].suppress => spans[r] = <<>>

\* C5: when the application raises, the middleware's caller gets the same
\* exception, in the active branch and in both pass-through branches.
C5_ExceptionPropagatesUnchanged ==
    \A r \in Requests :
        appOutcome[r].kind = "raise" =>
            /\ pc[r] = "done"
            /\ result[r] = appOutcome[r]
C5_Witness ==
    \E r \in Requests :
        /\ Activated(r)
        /\ appOutcome[r] = Outcome("raise", "E2")
        /\ result[r] = Outcome("raise", "E2")

\* the order of the exit of request r: the root span is ended, then the
\* context is detached once, then the outcome reaches the caller
ExitOrder(r) ==
    /\ spans[r][1].ended
    /\ Cardinality(Detaches(r)) = 1
    /\ Before(r, "app_end", 0, "span_end", 1)
    /\ Before(r, "span_end", 1, "detach", 0)
    /\ Before(r, "detach", 0, "surface", 0)
    /\ Cardinality(At(r, "surface", 0)) = 1
\* C6 as stated: when the application raises, the root span is closed with
\* error status, then the context is detached once, then the exception
\* reaches the caller.
C6_Original ==
    \A r \in Requests :
        Activated(r) /\ appOutcome[r].kind = "raise" =>
            /\ ExitOrder(r)
            /\ spans[r][1].status.code = "ERROR"
\* C6 as amended: when the application raises, the root span is closed, with
\* error status if it is a recording span, then the context is detached
\* once, then the exception reaches the caller.
C6_ClosedWithErrorThenDetached ==
    \A r \in Requests :
        Activated(r) /\ appOutcome[r].kind = "raise" =>
            /\ ExitOrder(r)
            /\ spans[r][1].recording =>
                 /\ spans[r][1].status.code = "ERROR"
                 /\ spans[r][1].exception = appOutcome[r].exc
            /\ ~spans[r][1].recording => spans[r][1].status = StatusUnset
C6_Witness ==
    \E r \in Requests :
        /\ Activated(r)
        /\ appOutcome[r].kind = "raise"
        /\ spans[r][1].recording
        /\ spans[r][1].status.code = "ERROR"
        /\ calls[r] # <<>>

\* C7: after a cancellation, while the application or an underlying receive
\* or send was awaited, every span of the request is ended and the context
\* of before the request is restored.
C7_CancelledLeavesNoSpanOpen ==
    \A r \in Requests :
        Activated(r) /\ appOutcome[r].kind = "cancel" =>
            /\ \A i \in 1..Len(spans[r]) :
                 /\ spans[r][i].ended
                 /\ Cardinality(At(r, "span_end", i)) = 1
            /\ Cardinality(Detaches(r)) = 1
            /\ cur[r] = token[r].old
            /\ result[r].kind = "cancel"
C7_Witness ==
    \E r \in Requests :
        /\ Activated(r)
        /\ appOutcome[r].kind = "cancel"
        /\ \E c \in 1..Len(calls[r]) : calls[r][c].st = "cancelled"

\* C8 as stated: on every exit of the middleware call, every attach has
\* been matched by one detach with its token.
C8_AttachMatchedByDetach ==
    \A r \in Requests :
        pc[r] = "done" =>
            /\ Cardinality(Detaches(r)) = Cardinality(Attaches(r))
            /\ cur[r].span = NoSpan

\* C9: with requests handled concurrently, a child span's parent is the root
\* span of its own request, a root span's parent is the one its own carrier
\* names, and a step of one request leaves the current context of every
\* other request's task as it is.
C9_ParentsOwn ==
    \A r \in Requests :
        /\ spans[r] # <<>> =>
             spans[r][1].parent = extract(scope[r], Ctx(NoSpan, FALSE)).span
        /\ \A i \in 2..Len(spans[r]) : spans[r][i].parent = LocalSpan(r, 1)
C9_ContextPerRequest ==
    [](C9_ParentsOwn) /\
    [][\A r \in Requests :
         cur'[r] # cur[r] => pc'[r] # pc[r] \/ calls'[r] # calls[r]]_vars
C9_Witness ==
    \E r, q \in Requests :
        /\ r # q
        /\ Awaiting(r) # {} /\ Awaiting(q) # {}
        /\ spans[r][1].parent # spans[q][1].parent
        /\ cur[r] # cur[q]

\* C10: a scope that is neither http nor websocket is passed through: no
\* span, no attach, the application called with the original receive and send.
C10_OtherTypesPassThrough ==
    \A r \in Requests :
        Arrived(r) /\ scope[r].type \notin {S_http, S_websocket} =>
            /\ spans[r] = <<>>
            /\ Attaches(r) = {}
            /\ token[r] = NoToken
            /\ given[r] = GivenOriginal
            /\ At(r, "app_call", 0) # {}
C10_Witness ==
    \E r \in Requests :
        /\ pc[r] = "done"
        /\ scope[r].type = S_lifespan
        /\ calls[r] # <<>>

\* the function name has been called and has returned or raised
Called(name) == fn = name /\ fn_done
\* int(v) is the number n: v is that int, or a str of its digits
Coerces(v, n) == v = IntV(n) \/ (v.t = "str" /\ v.s = Digits(n))
\* the status codes of the protocol
HttpCodes == 0..999
Coercible(v) == \E n \in HttpCodes : Coerces(v, n)

\* C11 as stated: for every status value that cannot be coerced to an
\* integer, None included, set_status_code on a recording span sets the
\* status to error with a message that holds the value, sets no
\* http.status_code attribute and does not raise.
C11_NonIntegerMarksError ==
    /\ Called("set_status_code")
    /\ is_recording(fn_args.span)
    /\ ~Coercible(fn_args.status_code)
    => /\ fn_ret.raised = ""
       /\ fn_ret.span.status.code = "ERROR"
       /\ IsSubstring(fn_args.status_code.s, fn_ret.span.status.desc)
       /\ ~DictHas(fn_ret.span.attrs, "http.status_code")

\* C12: for every status code that coerces to an integer, set_status_code on
\* a recording span sets http.status_code to that integer, and the status to
\* unset for 100..399 and to error for 400..599.
C12_IntegerStatusMapped ==
    Called("set_status_code") /\ is_recording(fn_args.span) =>
        \A n \in HttpCodes :
            Coerces(fn_args.status_code, n) =>
                /\ fn_ret.raised = ""
                /\ DictGet(fn_ret.span.attrs, "http.status_code") = IntV(n)
                /\ n \in 100..399 => fn_ret.span.status = StatusUnset
                /\ n \in 400..599 => fn_ret.span.status.code = "ERROR"
C12_Witness ==
    /\ Called("set_status_code")
    /\ is_recording(fn_args.span)
    /\ fn_args.status_code = Str(<<"4", "0", "4">>)
    /\ fn_ret.span.status.code = "ERROR"
    /\ DictGet(fn_ret.span.attrs, "http.status_code") = IntV(404)

\* C13: a span that is not recording gets no set_attribute and no set_status
\* call from the middleware, be it the root span, a receive span or a send
\* span, and set_status_code gives it back untouched.
C13_NonRecordingUntouched ==
    /\ \A r \in Requests : \A i \in 1..Len(spans[r]) :
         ~spans[r][i].recording =>
             /\ spans[r][i].writes = 0
             /\ spans[r][i].attrs = <<>>
             /\ spans[r][i].status = StatusUnset
    /\ \A sp \in FnSpans, c \in StatusCodes :
         ~sp.recording => set_status_code(sp, c) = [span |-> sp, raised |-> ""]
C13_Witness ==
    \E r \in Requests :
        /\ pc[r] = "done"
        /\ Len(spans[r]) = 3
        /\ \A i \in 1..3 : ~spans[r][i].recording /\ spans[r][i].ended
        /\ \E c, d \in 1..Len(calls[r]) :
             /\ calls[r][c].kind = "receive"
             /\ calls[r][d].kind = "send"
             /\ calls[r][d].msg.type = M_http_response_start

\* the root span name and the url of the GET request ScopeGet
S_GET_asgi == <<"G", "E", "T", " ", "a", "s", "g", "i">>
S_url_foobar == <<"h", "t", "t", "p", ":", "/", "/", "0", ".", "0", ".", "0",
                  ".", "0", "/", "f">>
\* C14: the root span of every activated request has kind SERVER and the
\* name the naming strategy gave followed by " asgi" ("GET asgi" for a GET
\* request with the default strategy), and a recording root span carries the
\* attributes of collect_request_attributes, http.method = "GET" among them.
C14_RootSpanNamedAndAttributed ==
    \A r \in Requests :
        Activated(r) =>
            LET root == spans[r][1]
                collected == collect_request_attributes(scope[r]).attrs
            IN /\ root.kind = "SERVER"
               /\ \E cb \in CallbackResults(span_details_callback, scope[r]) :
                    /\ cb.name.t = "str"
                    /\ root.name = cb.name.s \o <<" ", "a", "s", "g", "i">>
                    /\ root.recording =>
                         \A i \in 1..Len(collected) :
                             \/ DictHas(cb.attrs, collected[i][1])
                             \/ DictGet(root.attrs, collected[i][1])
                                  = collected[i][2]
               /\ span_details_callback = "default" /\ scope[r].method = Str(S_GET)
                    => root.name = S_GET_asgi
               /\ root.recording /\ scope[r].method = Str(S_GET)
                    => DictGet(root.attrs, "http.method") = Str(S_GET)
               /\ root.recording /\ scope[r] = ScopeGet
                    => DictGet(root.attrs, "http.url") = Str(S_url_foobar)
C14_Witness ==
    \E r \in Requests :
        /\ pc[r] = "done"
        /\ scope[r] = ScopeGet
        /\ span_details_callback = "default"
        /\ Activated(r)
        /\ spans[r][1].recording
        /\ spans[r][1].name = S_GET_asgi
        /\ DictGet(spans[r][1].attrs, "http.method") = Str(S_GET)

\* C15: url_disabled(url) is false for an empty exclusion list, and for any
\* other list it is true exactly when one of the patterns occurs somewhere in
\* the url.
C15_DisabledIffSomePatternFound ==
    Called("url_disabled") =>
        fn_ret = (/\ fn_args.excluded # <<>>
                  /\ \E i \in 1..Len(fn_args.excluded) :
                       IsSubstring(fn_args.excluded[i], fn_args.url))
C15_Witness ==
    /\ Called("url_disabled")
    /\ fn_ret = TRUE
    /\ Len(fn_args.excluded) = 2
    /\ fn_args.excluded[2] # <<>>
    /\ ~IsSubstring(fn_args.excluded[1], fn_args.url)
    /\ ~IsPrefix(fn_args.excluded[2], fn_args.url)

\* str.lower() on the letters of the header names
LowerChar(c) ==
    IF c = "H" THEN "h" ELSE IF c = "O" THEN "o"
    ELSE IF c = "S" THEN "s" ELSE IF c = "T" THEN "t" ELSE c
Lower(str) == [i \in 1..Len(str) |-> LowerChar(str[i])]
\* the values of the headers named key, in the order of the carrier
ValuesOf(headers, key) ==
    LET at == {i \in 1..Len(headers) : headers[i][1] = key}
    IN CHOOSE vs \in SeqsUpTo({headers[i][2] : i \in at}, Len(headers)) :
           /\ Len(vs) = Cardinality(at)
           /\ \E f \in [1..Len(vs) -> at] :
                /\ \A j, k \in 1..Len(vs) : j < k => f[j] < f[k]
                /\ \A j \in 1..Len(vs) : vs[j] = headers[f[j]][2]

\* C16 as stated: get finds a header that the carrier stores under a
\* lower-cased name whatever the case of the key it is given.
C16_GetIgnoresKeyCase ==
    Called("get") /\ fn_args.carrier.headers.given =>
        /\ fn_ret.raised = ""
        /\ fn_ret.found =
             (\E i \in 1..Len(fn_args.carrier.headers.list) :
                  fn_args.carrier.headers.list[i][1] = Lower(fn_args.key))
        /\ fn_ret.values =
             ValuesOf(fn_args.carrier.headers.list, Lower(fn_args.key))

\* C17 as stated: get returns None, and neither an empty list nor an
\* exception, when the carrier holds no header of that name or no headers at
\* all; otherwise it returns all the values of the header in carrier order.
C17_GetNoneWhenAbsent ==
    Called("get") =>
        LET headers == IF fn_args.carrier.headers.given
                       THEN fn_args.carrier.headers.list ELSE <<>>
            values == ValuesOf(headers, fn_args.key)
        IN /\ fn_ret.raised = ""
           /\ fn_ret.found = (values # <<>>)
           /\ fn_ret.values = values

\* C18 as stated: keys returns exactly the names of the headers in the
\* carrier, and the empty list for a carrier without headers.
C18_KeysAreHeaderNames ==
    Called("keys") =>
        LET headers == IF fn_args.carrier.headers.given
                       THEN fn_args.carrier.headers.list ELSE <<>>
        IN /\ {fn_ret[i] : i \in 1..Len(fn_ret)}
                = {headers[i][1] : i \in 1..Len(headers)}
           /\ headers = <<>> => fn_ret = <<>>

\* C19: the mapping collect_request_attributes returns holds no None value:
\* a key whose scope field is absent is left out, http.method for a scope
\* without method among them.
C19_NoNoneAttribute ==
    Called("collect_request_attributes") /\ fn_ret.raised = "" =>
        LET sc == fn_args.carrier
            attrs == fn_ret.attrs
        IN /\ \A i \in 1..Len(attrs) : attrs[i][2] # NoneV
           /\ DictHas(attrs, "http.method") = (sc.method # NoneV)
           /\ DictHas(attrs, "http.scheme") = (sc.scheme # NoneV)
           /\ DictHas(attrs, "http.flavor") = (sc.http_version # NoneV)
           /\ DictHas(attrs, "net.peer.ip") = sc.client.given
           /\ sc.method # NoneV => DictGet(attrs, "http.method") = sc.method
C19_Witness ==
    /\ Called("collect_request_attributes")
    /\ fn_ret.raised = ""
    /\ fn_args.carrier.method = NoneV
    /\ fn_args.carrier.scheme = NoneV
    /\ ~DictHas(fn_ret.attrs, "http.method")
    /\ DictHas(fn_ret.attrs, "http.url")

\* C20 as stated: http.host is the bare host when the server port is the
\* default port of the scope's scheme (80 for http and ws, 443 for https and
\* wss), and host:port otherwise.
C20_HostOmitsSchemeDefaultPort ==
    Called("get_host_port_url_tuple") /\ fn_args.carrier.server_host # NoneV =>
        LET sc == fn_args.carrier
            default == IF sc.scheme \in {Str(S_https), Str(S_wss)}
                       THEN 443 ELSE 80
        IN fn_ret[1] = IF sc.server_port = default THEN sc.server_host.s
                       ELSE sc.server_host.s \o <<":">>
                            \o Digits(sc.server_port)

\* what percent-decoding gives for the query strings of the inputs
Decoded(q) == IF q = <<"a", "%", "2", "0", "b">> THEN <<"a", " ", "b">> ELSE q
\* scheme + "://" + host + path, then "?" and the decoded query string when
\* the scope sc has a non-empty one; host is the http.host of attrs
UrlOf(sc, attrs, path) ==
    GetOr(sc.scheme, S_http) \o <<":", "/", "/">>
    \o DictGet(attrs, "http.host").s \o path
    \o (IF sc.query_string \notin {NoneV, Str(<<>>)}
        THEN <<"?">> \o Decoded(sc.query_string.s) ELSE <<>>)

C22_DefaultNameMethodElsePath ==
    Called("get_default_span_details") =>
        LET sc == fn_args.carrier
        IN /\ fn_ret.raised = ""
           /\ fn_ret.name = IF sc.method # NoneV THEN sc.method ELSE sc.path
           /\ fn_ret.attrs = <<>>
C22_Witness ==
    /\ Called("get_default_span_details")
    /\ fn_args.carrier.method = NoneV
    /\ fn_args.carrier.path = Str(P_ws)
    /\ fn_ret.name = Str(P_ws)

\* int(s, 16) of a string of hexadecimal digits
RECURSIVE ParseHex(_)
ParseHex(s) ==
    IF s = <<>> THEN 0
    ELSE LET last == s[Len(s)]
             d == CHOOSE i \in 0..15 : HexDigits[i + 1] = last
         IN 16 * ParseHex(SubSeq(s, 1, Len(s) - 1)) + d
\* the seconds of 30 days
MaxAge == 2592000

\* C27 as stated: for every clock value, generate_trace_id returns a string
\* of exactly 32 hexadecimal characters whose first 8 characters are the
\* current Unix time in seconds (never later than the current time and never
\* older than 30 days).
C27_TraceIdIs32HexWithTime ==
    Called("generate_trace_id") =>
        /\ Len(fn_ret) = 32
        /\ \A i \in 1..Len(fn_ret) :
               \E d \in 1..16 : fn_ret[i] = HexDigits[d]
        /\ LET stamp == ParseHex(SubSeq(fn_ret, 1, 8))
           IN stamp <= fn_args.clock /\ stamp > fn_args.clock - MaxAge

\* the routes of the application of r that match its request
RoutesMatched(r) ==
    {i \in 1..Len(scope[r].app.routes) :
        Matches(scope[r].app.routes[i], scope[r]) # "NONE"}

C25_ScopeUnchanged == [][scope' = scope]_vars
C25_Witness ==
    \E r \in Requests :
        /\ pc[r] = "done"
        /\ result[r].kind = "raise"
        /\ Activated(r)
        /\ Len(spans[r]) > 1
        /\ scope[r] = ScopeGetParent

\* the traceparent headers of a scope
TraceparentOf(sc) ==
    IF sc.headers.given THEN SelectValues(sc.headers.list, S_traceparent)
    ELSE <<>>
\* request r is of a traced type and not excluded, its name comes from the
\* scope and its query string can be decoded
Handled(r) ==
    /\ pc[r] \notin {"off", "idle"}
    /\ IsTracedType(scope[r].type)
    /\ ~IsExcluded(excluded_urls, scope[r])
    /\ span_details_callback # "user"
    /\ scope[r].query_string # NoneV => Decodable(scope[r].query_string.s)

\* C26 as stated: the root span is opened under the context extracted from
\* the request's carrier: with well-formed trace-context headers its parent
\* is the remote span they identify; with absent or malformed headers the
\* request is still handled, the root span is created without a remote
\* parent, and no tracing error reaches the transport layer.
C26_RootUnderExtractedContext ==
    \A r \in Requests :
        Handled(r) =>
            LET tp == TraceparentOf(scope[r])
            IN /\ spans[r] # <<>>
               /\ given[r] = GivenWrapped
               /\ spans[r][1].parent =
                      IF tp # <<>> /\ WellFormedTraceparent(tp[1])
                      THEN RemoteOf(tp[1]) ELSE NoSpan
               /\ result[r].kind = "raise" => result[r].exc \in Exceptions

\* the steps of the lifecycle a request has reached
Phase(p) == IF p \in {"off", "idle"} THEN 0 ELSE IF p = "app" THEN 1 ELSE 2
\* everything the middleware keeps about request r
RequestState(r) ==
    <<pc[r], given[r], cur[r], token[r], span_name[r], spans[r], calls[r],
      log[r], appOutcome[r], result[r]>>
Once(r, ev, n) == Cardinality(At(r, ev, n)) = 1
LifecycleOrder(r) ==
    /\ Once(r, "attach", 0) /\ Once(r, "span_start", 1)
    /\ Once(r, "app_call", 0)
    /\ Before(r, "attach", 0, "span_start", 1)
    /\ Before(r, "span_start", 1, "app_call", 0)
    /\ Before(r, "app_call", 0, "app_end", 0)
    /\ Before(r, "app_end", 0, "span_end", 1)
    /\ Before(r, "span_end", 1, "detach", 0)
    /\ pc[r] = "app" =>
           At(r, "app_end", 0) \cup At(r, "span_end", 1) \cup Detaches(r) = {}
    /\ pc[r] = "done" =>
           /\ Once(r, "app_end", 0) /\ Once(r, "span_end", 1)
           /\ Once(r, "detach", 0)

\* C29: each activated request goes through the lifecycle steps in a fixed
\* order and never backwards: the extracted context is attached before the
\* root span is opened, the root span is opened before the downstream
\* application is invoked, the root span is closed only after the downstream
\* call has ended, and the context is detached only after the root span is
\* closed; a request that is closed changes no more.
C29_LifecycleInOrder ==
    /\ [](\A r \in Requests : Activated(r) => LifecycleOrder(r))
    /\ [][\A r \in Requests :
              /\ Phase(pc'[r]) >= Phase(pc[r])
              /\ pc[r] = "done" => RequestState(r)' = RequestState(r)]_vars
C29_Witness ==
    \E r \in Requests :
        /\ Activated(r)
        /\ pc[r] = "done"
        /\ Len(calls[r]) = MaxCalls
        /\ Once(r, "detach", 0)
        /\ cur[r] = token[r].old

\* C30: each invocation of the wrapped receive opens exactly one child span
\* named <root span name> + "." + <scope type> + ".receive", awaits the
\* underlying receive exactly once while that span is open, and closes the
\* span before returning - also when the underlying receive raises or is
\* cancelled; no receive child span stays open after its call has ended.
C30_ReceiveSpanPerCall ==
    \A r \in Requests :
        \A c \in 1..Len(calls[r]) :
            calls[r][c].kind = "receive" /\ given[r].receive = "wrapped" =>
                LET i == calls[r][c].span
                    child == spans[r][i]
                IN /\ i \in 2..Len(spans[r])
                   /\ \A d \in 1..Len(calls[r]) : calls[r][d].span = i => d = c
                   /\ child.name = spans[r][1].name \o <<".">>
                                   \o scope[r].type
                                   \o <<".", "r", "e", "c", "e", "i", "v", "e">>
                   /\ Once(r, "span_start", i) /\ Once(r, "receive", i)
                   /\ Before(r, "span_start", i, "receive", i)
                   /\ Before(r, "receive", i, "span_end", i)
                   /\ calls[r][c].st = "awaiting" =>
                          ~child.ended /\ At(r, "span_end", i) = {}
                   /\ calls[r][c].st # "awaiting" =>
                          child.ended /\ Once(r, "span_end", i)
C30_Witness ==
    \E r \in Requests :
        \E c, d \in 1..Len(calls[r]) :
            /\ calls[r][c].kind = "receive" /\ calls[r][d].kind = "receive"
            /\ calls[r][c].st = "cancelled"
            /\ calls[r][d].st = "done"
            /\ spans[r][calls[r][d].span].exception = "E1"
            /\ spans[r][calls[r][c].span].ended

\* C24: instrument() followed by uninstrument() is a round trip on the
\* framework's application class: while the instrumentor is switched on the
\* class the framework module exposes is the instrumented class, which is not
\* the original one, and after uninstrument() it is the original class again.
C24_InstrumentRoundTrip ==
    /\ is_instrumented.starlette =>
           /\ applications_Starlette = "_InstrumentedStarlette"
           /\ original_starlette = "Starlette"
           /\ applications_Starlette # original_starlette
    /\ ~is_instrumented.starlette => applications_Starlette = "Starlette"
C24_Witness ==
    /\ ~is_instrumented.starlette
    /\ original_starlette = "Starlette"
    /\ applications_Starlette = "Starlette"
    /\ \E i \in 1..Len(apps) : apps[i].cls = "_InstrumentedStarlette"

\* C28 as stated: instrument_connection(connection), applied to a connection
\* obtained while the library is not instrumented, returns an instrumented
\* connection: statements executed through the original connection produce
\* no span, and each statement executed through a cursor of the returned
\* connection produces exactly one span.
C28_InstrumentConnectionTraces ==
    returned.conn # 0 /\ ~connections[returned.conn].traced =>
        /\ returned.raised = ""
        /\ returned.result \in 1..Len(connections)
        /\ connections[returned.result].traced
        /\ connections[returned.result].wraps = returned.conn
        /\ executed.conn = returned.conn => executed.spans = 0
        /\ executed.conn = returned.result => executed.spans = 1

\* the calls of kind that the application of r made through a wrapper
WrappedCalls(r, kind) ==
    {c \in 1..Len(calls[r]) : calls[r][c].kind = kind /\ calls[r][c].span > 0}

\* C31: for each wrapped-receive call whose child span is recording, nothing
\* is written to the span before the message is received; once it is, the
\* span has http.status_code 200 if and only if the message type is
\* "websocket.receive", its attribute "type" is the message's type, the span
\* is closed and the message is the one returned to the application.
C31_ReceiveSpanAnnotated ==
    \A r \in Requests :
        \A c \in WrappedCalls(r, "receive") :
            LET child == spans[r][calls[r][c].span]
                message == calls[r][c].msg
            IN child.recording =>
                /\ message = NoMsg => child.writes = 0 /\ child.attrs = <<>>
                /\ message # NoMsg =>
                    /\ message \in RecvMessages(scope[r].type)
                    /\ calls[r][c].st = "done" /\ child.ended
                    /\ DictGet(child.attrs, "type") = message.type
                    /\ DictHas(child.attrs, "http.status_code")
                           <=> message.type = Str(<<"websocket.receive">>)
                    /\ message.type = Str(<<"websocket.receive">>) =>
                           DictGet(child.attrs, "http.status_code") = IntV(200)
C31_Witness ==
    \E r \in Requests :
        \E c, d \in WrappedCalls(r, "receive") :
            /\ spans[r][calls[r][c].span].recording
            /\ calls[r][c].msg.type = Str(<<"websocket.receive">>)
            /\ calls[r][d].msg.type = Str(<<"websocket.connect">>)
            /\ DictGet(spans[r][calls[r][c].span].attrs, "http.status_code")
                   = IntV(200)
            /\ DictGet(spans[r][calls[r][d].span].attrs, "type")
                   = Str(<<"websocket.connect">>)

\* C32: for each wrapped-send call whose child span is recording: for an
\* "http.response.start" message the message's status is applied through the
\* status mapper, for a "websocket.send" message status 200 is applied, for
\* any other type no status is applied, and the "type" attribute is always
\* recorded; all of this is done before the message is forwarded to the
\* underlying send, which it is exactly once, and the child span is closed
\* only after the underlying send has completed.
C32_SendSpanAnnotated ==
    \A r \in Requests :
        \A c \in WrappedCalls(r, "send") :
            LET i == calls[r][c].span
                child == spans[r][i]
                message == calls[r][c].msg
                applied == IF message.type = Str(<<"http.response.start">>)
                           THEN <<message.status>>
                           ELSE IF message.type = Str(<<"websocket.send">>)
                           THEN <<IntV(200)>> ELSE <<>>
            IN child.recording =>
                /\ DictGet(child.attrs, "type") = message.type
                /\ applied = <<>> =>
                       /\ ~DictHas(child.attrs, "http.status_code")
                       /\ child.status.code = "UNSET" \/ child.exception # ""
                /\ applied # <<>> =>
                       /\ DictGet(child.attrs, "http.status_code") = applied[1]
                       /\ child.exception = "" =>
                              child.status.code = http_status_to_status_code(
                                                      applied[1].n)
                /\ Once(r, "send", i)
                /\ Before(r, "span_start", i, "send", i)
                /\ Before(r, "send", i, "span_end", i)
                /\ calls[r][c].st = "awaiting" =>
                       ~child.ended /\ At(r, "span_end", i) = {}

\* the calls that the application of r made through a wrapper
AllWrapped(r) == WrappedCalls(r, "receive") \cup WrappedCalls(r, "send")
\* the span with index i started while the root span was open
StartedUnderOpenRoot(r, i) ==
    \A s \in At(r, "span_start", i) :
        /\ \E o \in At(r, "span_start", 1) : o < s
        /\ \A e \in At(r, "span_end", 1) : s < e

\* C33: within one request, whatever calls of receive and send the
\* application has in flight at the same time, every child span's parent is
\* the root span, which is open when the child starts; child spans start in
\* call order whatever the order in which the calls complete; and the token of
\* each child's attach restores the context of the root span in the task
\* that made the attach: the application's own task has the child of the call
\* it is suspended in as its current span, and the root span otherwise.
C33_SiblingsUnderOpenRoot ==
    \A r \in Requests :
        /\ \A c \in AllWrapped(r) :
              LET i == calls[r][c].span
                  child == spans[r][i]
              IN /\ child.parent = LocalSpan(r, 1)
                 /\ StartedUnderOpenRoot(r, i)
                 /\ \A d \in AllWrapped(r) :
                        c < d => /\ i < calls[r][d].span
                                 /\ Before(r, "span_start", i,
                                           "span_start", calls[r][d].span)
                 /\ child.token.owner = r
                 /\ child.token.old.span = LocalSpan(r, 1)
                 /\ calls[r][c].inline /\ calls[r][c].st = "awaiting" =>
                        cur[r] = Ctx(LocalSpan(r, i), child.token.old.suppress)
        /\ pc[r] = "app" /\ spans[r] # <<>> /\ ~MainSuspended(r) =>
              cur[r].span = LocalSpan(r, 1)
C33_Witness ==
    \E r \in Requests :
        \E c, d \in AllWrapped(r) :
            /\ c < d
            /\ calls[r][c].inline /\ calls[r][c].st = "awaiting"
            /\ ~calls[r][d].inline /\ calls[r][d].st = "done"
            /\ spans[r][calls[r][d].span].ended
            /\ ~spans[r][calls[r][c].span].ended

\* the middleware call of r failed before it reached self.app
FailedBefore(r) ==
    pc[r] = "done" /\ result[r].kind = "raise" /\ At(r, "app_call", 0) = {}

\* C34: every call of the middleware that does not fail before reaching it
\* invokes the application exactly once, with the scope it was given: with
\* the original receive and send for a scope that is neither http nor
\* websocket and for an excluded url, with the wrapped ones otherwise.
C34_AppCalledOnceWithScope ==
    \A r \in Requests :
        /\ Arrived(r) /\ ~FailedBefore(r) =>
              /\ Once(r, "app_call", 0)
              /\ app_scope[r] = <<scope[r]>>
              /\ given[r] = IF /\ IsTracedType(scope[r].type)
                               /\ ~IsExcluded(excluded_urls, scope[r])
                            THEN GivenWrapped ELSE GivenOriginal
        /\ ~Arrived(r) \/ FailedBefore(r) =>
              app_scope[r] = <<>> /\ given[r] = GivenNone
C34_Witness ==
    \E r \in Requests :
        /\ pc[r] = "done" /\ result[r].kind = "return"
        /\ scope[r].headers.given /\ scope[r].headers.list # <<>>
        /\ app_scope[r] = <<scope[r]>>
        /\ given[r] = GivenWrapped

\* C35: the instrumentation is transparent to the message flow: every call
\* of the wrapped receive is one call of the underlying receive whose message
\* is returned to the application, and every message given to the wrapped
\* send is forwarded to the underlying send, exactly once and in the order
\* of the calls.
C35_MessageFlowTransparent ==
    \A r \in Requests :
        /\ \A c \in WrappedCalls(r, "receive") :
              LET i == calls[r][c].span
              IN /\ Once(r, "receive", i)
                 /\ calls[r][c].st = "done" /\ spans[r][i].exception = "" =>
                        calls[r][c].msg \in RecvMessages(scope[r].type)
        /\ \A c \in WrappedCalls(r, "send") :
              LET i == calls[r][c].span
              IN /\ calls[r][c].msg \in SendMessages(scope[r].type)
                 /\ Once(r, "send", i)
                 /\ \A d \in WrappedCalls(r, "send") :
                        c < d => Before(r, "send", i, "send", calls[r][d].span)

\* the span of the same call in a run in which spans record the other way
Twin(span) == [span EXCEPT !.recording = ~@]

\* C36: whether spans are recording has no influence on what the application
\* and the transport observe: for the same message, also one without a
\* "type" or a response start whose status is None or not a number, a call
\* of a wrapper with a recording span and one with a span that is not
\* recording return or forward the same message and raise the same exception.
C36_RecordingUnobservable ==
    /\ Called("wrapped_receive") =>
          LET twin == wrapped_receive(Twin(fn_args.span), fn_args.message)
          IN fn_ret.raised = twin.raised /\ fn_ret.returned = twin.returned
    /\ Called("wrapped_send") =>
          LET twin == wrapped_send(Twin(fn_args.span), fn_args.message)
          IN fn_ret.raised = twin.raised /\ fn_ret.forwarded = twin.forwarded

\* scheme + "://" + host[:port] + root_path + path of a scope; the scheme
\* is http and the server 0.0.0.0 (port 80) when the scope has none
TestedString(sc) ==
    LET host == IF sc.server_host = NoneV THEN <<"0", ".", "0", ".", "0", ".", "0">>
                ELSE sc.server_host.s
        port == IF sc.server_host = NoneV \/ sc.server_port = 80 THEN <<>>
                ELSE <<":">> \o Digits(sc.server_port)
        root == IF sc.root_path = NoneV THEN <<>> ELSE sc.root_path.s
    IN (IF sc.scheme = NoneV THEN <<"h", "t", "t", "p">> ELSE sc.scheme.s)
       \o <<":", "/", "/">> \o host \o port \o root \o sc.path.s
\* the scope without what the exclusion test does not look at
Bare(sc) ==
    [sc EXCEPT !.query_string = NoneV, !.headers.list = <<>>, !.method = NoneV,
               !.client = [given |-> FALSE, ip |-> <<>>, port |-> 0]]

\* C37: the string tested by the exclusion filter is scheme + "://" +
\* host[:port] + root_path + path, without the query string: a scope is
\* excluded if and only if one of the patterns occurs in that string, and the
\* decision is the one for the scope without query string, headers, method
\* and client address, so that scopes that differ only in these get the same
\* decision; a pattern may match in the scheme or the host part as well as
\* in the path.
C37_ExclusionTestsUrlWithoutQuery ==
    Called("is_excluded") =>
        LET sc == fn_args.carrier
            ps == fn_args.excluded
        IN /\ fn_ret = \E i \in 1..Len(ps) : IsSubstring(ps[i], TestedString(sc))
           /\ fn_ret = IsExcluded(ExcludeList(ps), Bare(sc))
C37_Witness ==
    /\ Called("is_excluded")
    /\ fn_args.excluded = <<<<"q">>, <<"a", ":", "8">>>>
    /\ fn_args.carrier.query_string = Str(<<"q">>)
    /\ fn_args.carrier.root_path # NoneV
    /\ fn_ret = TRUE

\* C38: after any sequence of instrument_app calls on an application, also
\* one constructed while instrument() is in force, the application's
\* middleware stack holds at most one OpenTelemetryMiddleware.
C38_AtMostOneMiddleware ==
    \A i \in 1..Len(apps) : apps[i].middleware <= 1

\* the entries of a comma-separated string that are not empty after stripping
Entries(env) ==
    IF env.t = "none" THEN {}
    ELSE LET parts == Split(env.s, ",")
         IN {Strip(parts[i]) : i \in 1..Len(parts)} \ {<<>>}

\* C39: an exclusion list built from the comma-separated environment string
\* excludes a url if and only if some entry that is not empty after
\* stripping occurs in the url: empty entries (from a comma at the end, at
\* the start or doubled) exclude nothing, and an unset or empty variable
\* excludes nothing.
C39_EmptyEntriesExcludeNothing ==
    Called("get_excluded_urls") =>
        fn_ret = \E entry \in Entries(fn_args.env) :
                     IsSubstring(entry, fn_args.url)

====
